---- MODULE Spec2Model ----
(***************************************************************************)
(* A model of finlib's versioned in-memory store (pkg/storage/memory), its  *)
(* transaction engine (pkg/transaction) and the structural validator, its  *)
(* event bus (pkg/event), validation engine (pkg/validation) and report     *)
(* calculator (pkg/reporting).                                              *)
(*                                                                          *)
(* Entities are Go pointers: the store keeps the pointer it is handed, so   *)
(* the model has a heap of entity objects and the store's maps hold         *)
(* references into it.                                                      *)
(***************************************************************************)
EXTENDS Integers, Sequences, FiniteSets, TLC

(***************************************************************************)
(* Bounds                                                                   *)
(***************************************************************************)
\* longest audit trail of one id: the number of successful store mutations
MaxAudit == 4
\* the versions a caller writes into its own entity object are 0..MaxVersion
MaxVersion == 2
\* most entries of a transaction handed to the validator
MaxEntries == 3
\* most calls the processor makes on its repository in a run
MaxCalls == 3
\* most handler registrations the bus holds at a time
MaxSubs == 3
\* most validators registered with the validation engine
MaxValidators == 2
\* the dates of the stored transactions and of the report periods are 1..MaxDate
MaxDate == 3

(***************************************************************************)
(* The heap of entity objects (store_test.go: TestEntity, SimpleEntity)     *)
(***************************************************************************)
NoObj == "nil"
TestObjs == {"e1", "e2", "e3", "e4"}
SimpleObjs == {"s1"}
Objs == TestObjs \cup SimpleObjs
Ids == {"a", "b"}
Data == {"", "x"}
Versions == 0..MaxVersion

TestEntityT == "*memory.TestEntity"
SimpleEntityT == "*memory.SimpleEntity"
Types == {TestEntityT, SimpleEntityT}

VARIABLES
    heap,      \* heap[o]: the fields of entity object o
    data,      \* MemoryStore.data: type -> (id -> object reference)
    version,   \* MemoryStore.version: id -> int64 (0 when the key is absent)
    audit,     \* MemoryStore.audit: id -> sequence of AuditEntry
    commits,   \* history: per id, the operations that returned success
    ret,       \* the last store call: operation, arguments, returned error
    clean,     \* history: the objects filled by Read whose id was not
               \* written since and whose version field the caller kept
    mu,        \* MemoryStore.RWMutex: the goroutine holding the write lock
    pc,        \* position of each concurrent Update call
    ures,      \* what each concurrent Update call returned
    txs,       \* the *Transaction objects of the processor's callers
    calls,     \* the calls the processor made on its storage.Repository
    clock,     \* time.Now()
    pret,      \* the last processor call: operation, argument, returned error
    repo,      \* the transactions held by the processor's storage.Repository
    ctx,       \* the context.Context the callers of the processor pass
    inflight,  \* the VoidTransaction and ReverseTransaction calls that run
               \* in goroutines of their own: position, locals, result
    vtx,       \* the entries of the transaction handed to BasicValidator
    vres,      \* the ValidationResult it returned
    rev,       \* the entries of the reversal built from vtx
    summary,   \* what GetTransactionSummary returned for vtx
    handlers,  \* MemoryBus.handlers: event type -> slice of handlers
    pub,       \* the Publish that is delivering: its copy of the slice
               \* header, its position, and what it has invoked so far
    validators, \* BasicValidationEngine.validators
    eres,      \* the last call on the validation engine and what it returned
    ledger,    \* the transactions held by the calculator's transaction store
    report,    \* the last calculator call and what it returned
    sheet      \* the last GenerateBalanceSheet call and what it returned

storeVars == <<heap, data, version, audit, commits, ret, clean>>
concVars == <<mu, pc, ures>>
callVars == <<ctx, inflight>>
procVars == <<txs, calls, clock, pret, repo, callVars>>
valVars == <<vtx, vres, rev, summary>>
busVars == <<handlers, pub>>
engVars == <<validators, eres>>
calcVars == <<ledger, report, sheet>>
libVars == <<busVars, engVars, calcVars>>
vars == <<storeVars, concVars, procVars, valVars, libVars>>
\* what a sequential store call leaves alone
notStore == <<concVars, procVars, valVars, libVars>>

\* fmt.Sprintf("%T", entity)
getEntityType(o) == IF o \in TestObjs THEN TestEntityT ELSE SimpleEntityT

\* entity.(interface{ GetID() string }).GetID()
getEntityID(o) == heap[o].id

\* entity.(interface{ GetVersion() int64 }): only TestEntity has the accessor
HasVersion(o) == o \in TestObjs

GetVersion(o) == heap[o].version

\* an inner map of s.data: made is FALSE while s.data[entityType] is nil
NoMap == [made |-> FALSE, ents |-> [i \in Ids \cup {""} |-> NoObj]]
EmptyMap == [made |-> TRUE, ents |-> [i \in Ids \cup {""} |-> NoObj]]

\* s.data[entityType][id], NoObj when the inner map or the key is absent
Stored(t, id) == data[t].ents[id]

AuditEntry(t, id, op, old, new) ==
    [EntityType |-> t, EntityID |-> id, Operation |-> op,
     PreviousState |-> old, NewState |-> new]

\* MemoryStore.recordAudit: append one entry to the trail of entityID
recordAudit(t, id, op, old, new) ==
    [audit EXCEPT ![id] = Append(@, AuditEntry(t, id, op, old, new))]

\* MemoryStore.GetAuditTrail: the trail itself
GetAuditTrail(id) == audit[id]

Ret(op, o, id, err) == [op |-> op, o |-> o, id |-> id, err |-> err, cur |-> 0, exp |-> 0]

\* history of the calls that returned nil, per id
Committed(op, id, err) ==
    IF err = "ok" THEN [commits EXCEPT ![id] = Append(@, op)] ELSE commits

(***************************************************************************)
(* MemoryStore.Create                                                       *)
(***************************************************************************)
CreateErr(o) ==
    IF getEntityID(o) = "" THEN "empty_id"
    ELSE IF Stored(getEntityType(o), getEntityID(o)) # NoObj THEN "exists"
    ELSE "ok"

CreateVersion(o) == [version EXCEPT ![getEntityID(o)] = 1]

CreateData(o) ==
    LET t == getEntityType(o)
        m == IF data[t] = NoMap THEN EmptyMap ELSE data[t]
    IN  [data EXCEPT ![t] = [m EXCEPT !.ents[getEntityID(o)] = o]]

\* the inner map is made before the duplicate check, also when Create fails
CreateMap(o) ==
    LET t == getEntityType(o)
    IN  IF data[t] = NoMap THEN [data EXCEPT ![t] = EmptyMap] ELSE data

Create(o) ==
    LET err == CreateErr(o)
        id == getEntityID(o)
    IN  /\ err = "ok" => Len(audit[id]) < MaxAudit
        /\ IF err = "ok"
           THEN /\ data' = CreateData(o)
                /\ version' = CreateVersion(o)
                /\ audit' = recordAudit(getEntityType(o), id, "CREATE", NoObj, o)
           ELSE /\ data' = (IF err = "exists" THEN CreateMap(o) ELSE data)
                /\ UNCHANGED <<version, audit>>
        /\ commits' = Committed("CREATE", id, err)
        /\ ret' = Ret("Create", o, id, err)
        /\ clean' = (IF err = "ok" THEN {} ELSE clean)
        /\ UNCHANGED <<heap, notStore>>

(***************************************************************************)
(* MemoryStore.Read                                                         *)
(***************************************************************************)
ReadErr(id, dst) ==
    IF data[getEntityType(dst)] = NoMap THEN "type_not_found"
    ELSE IF Stored(getEntityType(dst), id) = NoObj THEN "not_found"
    ELSE "ok"

\* copyEntity -> CopyFrom: *e = *s, a copy of the fields
copyEntity(src, dst) == [heap EXCEPT ![dst] = heap[src]]

Read(id, dst) ==
    LET err == ReadErr(id, dst)
    IN  /\ heap' = (IF err = "ok"
                    THEN copyEntity(Stored(getEntityType(dst), id), dst)
                    ELSE heap)
        /\ ret' = Ret("Read", dst, id, err)
        /\ clean' = (IF err = "ok" THEN clean \cup {dst} ELSE clean)
        /\ UNCHANGED <<data, version, audit, commits, notStore>>

(***************************************************************************)
(* MemoryStore.Update                                                       *)
(***************************************************************************)
\* mutant: only a stale caller version is refused
UpdateErrStaleOnly(o) ==
    IF data[getEntityType(o)] = NoMap THEN "type_not_found"
    ELSE IF Stored(getEntityType(o), getEntityID(o)) = NoObj THEN "not_found"
    ELSE IF HasVersion(o) /\ GetVersion(o) < version[getEntityID(o)]
         THEN "optimistic_lock"
    ELSE "ok"

UpdateErr(o) ==
    IF data[getEntityType(o)] = NoMap THEN "type_not_found"
    ELSE IF Stored(getEntityType(o), getEntityID(o)) = NoObj THEN "not_found"
    ELSE IF HasVersion(o) /\ GetVersion(o) # version[getEntityID(o)]
         THEN "optimistic_lock"
    ELSE "ok"

UpdateVersion(o) == [version EXCEPT ![getEntityID(o)] = @ + 1]

UpdateData(o) ==
    [data EXCEPT ![getEntityType(o)].ents[getEntityID(o)] = o]

UpdateAudit(o) ==
    recordAudit(getEntityType(o), getEntityID(o), "UPDATE",
                Stored(getEntityType(o), getEntityID(o)), o)

\* OptimisticLockError{CurrentVersion, ExpectedVersion}
UpdateRet(o, err) ==
    IF err = "optimistic_lock"
    THEN [Ret("Update", o, getEntityID(o), err)
            EXCEPT !.cur = version[getEntityID(o)], !.exp = GetVersion(o)]
    ELSE Ret("Update", o, getEntityID(o), err)

Update(o) ==
    LET err == UpdateErr(o)
        id == getEntityID(o)
    IN  /\ err = "ok" => Len(audit[id]) < MaxAudit
        /\ IF err = "ok"
           THEN /\ version' = UpdateVersion(o)
                /\ data' = UpdateData(o)
                /\ audit' = UpdateAudit(o)
           ELSE UNCHANGED <<data, version, audit>>
        /\ commits' = Committed("UPDATE", id, err)
        /\ ret' = UpdateRet(o, err)
        /\ clean' = (IF err = "ok" THEN {} ELSE clean)
        /\ UNCHANGED <<heap, notStore>>

(***************************************************************************)
(* MemoryStore.Delete                                                       *)
(***************************************************************************)
\* the types whose inner map holds id: range over s.data visits them in an
\* unspecified order and the first hit is deleted
DeleteHits(id) == {t \in Types : Stored(t, id) # NoObj}

\* mutant: Delete forgets its audit record
DeleteAuditNone(t, id) == audit

DeleteAudit(t, id) == recordAudit(t, id, "DELETE", Stored(t, id), NoObj)

Delete(id) ==
    /\ DeleteHits(id) # {} => Len(audit[id]) < MaxAudit
    /\ IF DeleteHits(id) = {}
       THEN /\ UNCHANGED <<data, version, audit>>
            /\ commits' = Committed("DELETE", id, "not_found")
            /\ ret' = Ret("Delete", NoObj, id, "not_found")
            /\ clean' = clean
       ELSE \E t \in DeleteHits(id) :
            /\ data' = [data EXCEPT ![t].ents[id] = NoObj]
            /\ audit' = DeleteAudit(t, id)
            /\ UNCHANGED version
            /\ commits' = Committed("DELETE", id, "ok")
            /\ ret' = Ret("Delete", NoObj, id, "ok")
            /\ clean' = {}
    /\ UNCHANGED <<heap, notStore>>

(***************************************************************************)
(* The callers: they keep the pointers they passed and write their fields   *)
(***************************************************************************)
\* e.SetVersion(v)
SetVersion(o, v) ==
    /\ HasVersion(o)
    /\ heap[o].version # v
    /\ heap' = [heap EXCEPT ![o].version = v]
    /\ ret' = Ret("Mutate", o, heap[o].id, "ok")
    /\ clean' = clean \ {o}
    /\ UNCHANGED <<data, version, audit, commits, notStore>>

\* e.data = d
SetData(o, d) ==
    /\ heap[o].data # d
    /\ heap' = [heap EXCEPT ![o].data = d]
    /\ ret' = Ret("Mutate", o, heap[o].id, "ok")
    /\ UNCHANGED <<data, version, audit, commits, clean, notStore>>

\* e1 and s1 are built with id "a"; e2 is &TestEntity{}, the zero value a
\* caller hands to Read
InitHeap ==
    [o \in Objs |-> [id |-> IF o = "e2" THEN "" ELSE "a", version |-> 0, data |-> ""]]

\* NewMemoryStore(): empty maps
StoreInit ==
    /\ heap = InitHeap
    /\ data = [t \in Types |-> NoMap]
    /\ version = [i \in Ids \cup {""} |-> 0]
    /\ audit = [i \in Ids \cup {""} |-> <<>>]
    /\ commits = [i \in Ids \cup {""} |-> <<>>]
    /\ ret = Ret("Init", NoObj, "", "ok")
    /\ clean = {}

Callers == {"e1", "e2"}

(***************************************************************************)
(* MemoryStore.Update, step by step under the store's RWMutex               *)
(***************************************************************************)
NoProc == "none"
Updaters == {"e2", "e3", "e4"}
NoRes == Ret("none", NoObj, "", "none")

ConcIdle ==
    /\ mu = NoProc
    /\ pc = [p \in Updaters |-> "idle"]
    /\ ures = [p \in Updaters |-> NoRes]

AllIdle == \A p \in Updaters : pc[p] = "idle"

\* mutant: the lock excludes nobody
CanLockAlways == TRUE

\* s.Lock() returns only while no other goroutine holds the lock
CanLock == mu = NoProc

\* the creator's calls before the concurrent round: Create, then Updates that
\* hand in the version the store holds
SeedCreate == AllIdle /\ Create("e1")

SeedVersion == AllIdle /\ version["a"] \in Versions /\ SetVersion("e1", version["a"])

SeedUpdate == AllIdle /\ Update("e1")

\* every updater builds &TestEntity{id, version: V, data} with the stored V
Begin ==
    /\ AllIdle
    /\ Stored(TestEntityT, "a") # NoObj
    /\ Len(audit["a"]) < MaxAudit
    /\ \E d \in Data \ {""} :
         heap' = [o \in Objs |-> IF o \in Updaters
                                 THEN [id |-> "a", version |-> version["a"], data |-> d]
                                 ELSE heap[o]]
    /\ pc' = [p \in Updaters |-> "start"]
    /\ UNCHANGED <<data, version, audit, commits, ret, clean, mu, ures, procVars, valVars, libVars>>

\* store.go:78
Lock(p) ==
    /\ pc[p] = "start"
    /\ CanLock
    /\ mu' = p
    /\ pc' = [pc EXCEPT ![p] = "locked"]
    /\ UNCHANGED <<storeVars, ures, procVars, valVars, libVars>>

\* store.go:81-104; a refusal returns, and the deferred Unlock runs
Check(p) ==
    /\ pc[p] = "locked"
    /\ LET err == UpdateErr(p)
       IN  IF err = "ok"
           THEN /\ pc' = [pc EXCEPT ![p] = "checked"]
                /\ UNCHANGED <<mu, ures>>
           ELSE /\ pc' = [pc EXCEPT ![p] = "done"]
                /\ ures' = [ures EXCEPT ![p] = UpdateRet(p, err)]
                /\ mu' = NoProc
    /\ UNCHANGED <<storeVars, procVars, valVars, libVars>>

\* store.go:106-111, then the deferred Unlock
Write(p) ==
    /\ pc[p] = "checked"
    /\ version' = UpdateVersion(p)
    /\ data' = UpdateData(p)
    /\ audit' = UpdateAudit(p)
    /\ commits' = Committed("UPDATE", getEntityID(p), "ok")
    /\ ures' = [ures EXCEPT ![p] = UpdateRet(p, "ok")]
    /\ pc' = [pc EXCEPT ![p] = "done"]
    /\ mu' = NoProc
    /\ UNCHANGED <<heap, ret, clean, procVars, valVars, libVars>>

(***************************************************************************)
(* BasicValidator.Validate                                                  *)
(***************************************************************************)
Debit == "DEBIT"
Credit == "CREDIT"
EntryTypes == {Debit, Credit}

ErrCodeInvalidStatus == "INVALID_STATUS"
ErrCodeUnbalanced == "UNBALANCED_TRANSACTION"
ErrCodeInsufficientEntries == "INSUFFICIENT_ENTRIES"
ErrCodeMixedCurrencies == "MIXED_CURRENCIES"
ErrCodeInvalidAmount == "INVALID_AMOUNT"
ErrCodeDuplicateAccount == "DUPLICATE_ACCOUNT"

\* Field is the index of the entry the error names, -1 when it names none;
\* Details holds the totals an Unbalanced error carries
ValidationError(code, field, details) ==
    [Code |-> code, Field |-> field, Details |-> details]

NoDetails == [totalDebits |-> 0, totalCredits |-> 0]

AddError(st, code, field, details) ==
    [st EXCEPT !.Valid = FALSE,
               !.Errors = Append(@, ValidationError(code, field, details))]

\* mutant: only the debit total is seeded with the first entry
FirstEntryDebitOnly(st, e) ==
    [st EXCEPT !.currency = e.Currency, !.totalDebits = e.Amount]

\* processor.go:99-102: the first entry seeds the currency and both totals
FirstEntry(st, e) ==
    [st EXCEPT !.currency = e.Currency,
               !.totalDebits = e.Amount,
               !.totalCredits = e.Amount]

\* processor.go:77-135, one pass of the loop; i is the Go index (from 0)
ValidateEntry(st, e, i) ==
    LET s1 == IF e.Amount = 0
              THEN AddError(st, ErrCodeInvalidAmount, i, NoDetails) ELSE st
        s2 == IF e.Amount < 0
              THEN AddError(s1, ErrCodeInvalidAmount, i, NoDetails) ELSE s1
        s3 == IF i = 0 THEN FirstEntry(s2, e)
              ELSE IF e.Currency # s2.currency
                   THEN AddError(s2, ErrCodeMixedCurrencies, i, NoDetails)
                   ELSE s2
        s4 == IF e.AccountID \in s3.seenAccounts
              THEN AddError(s3, ErrCodeDuplicateAccount, i, NoDetails) ELSE s3
        s5 == [s4 EXCEPT !.seenAccounts = @ \cup {e.AccountID}]
    IN  IF e.Type = Debit
        THEN [s5 EXCEPT !.totalDebits = @ + e.Amount]
        ELSE [s5 EXCEPT !.totalCredits = @ + e.Amount]

RECURSIVE ValidateLoop(_, _, _)
ValidateLoop(entries, i, st) ==
    IF i >= Len(entries) THEN st
    ELSE ValidateLoop(entries, i + 1, ValidateEntry(st, entries[i + 1], i))

Validate(entries) ==
    LET st0 == [Valid |-> TRUE, Errors |-> <<>>, totalDebits |-> 0,
                totalCredits |-> 0, seenAccounts |-> {}, currency |-> ""]
        s1 == IF Len(entries) < 2
              THEN AddError(st0, ErrCodeInsufficientEntries, -1, NoDetails)
              ELSE st0
        s2 == ValidateLoop(entries, 0, s1)
        s3 == IF s2.totalDebits # s2.totalCredits
              THEN AddError(s2, ErrCodeUnbalanced, -1,
                            [totalDebits |-> s2.totalDebits,
                             totalCredits |-> s2.totalCredits])
              ELSE s2
    IN  [done |-> TRUE, Valid |-> s3.Valid, Errors |-> s3.Errors]

NoResult == [done |-> FALSE, Valid |-> FALSE, Errors |-> <<>>]

\* money.Money: the amount and the currency code
Money(amount, currency) == [Amount |-> amount, Currency |-> currency]

\* money.Money{}
NoMoney == Money(0, "")

TransactionSummary(panicked, debits, credits, net, count, accounts) ==
    [done |-> TRUE, panicked |-> panicked, TotalDebits |-> debits,
     TotalCredits |-> credits, NetAmount |-> net, EntryCount |-> count,
     AffectedAccounts |-> accounts]

\* no call was made yet
NoSummary ==
    [TransactionSummary(FALSE, NoMoney, NoMoney, NoMoney, 0, <<>>)
        EXCEPT !.done = FALSE]

\* processor.go:272-285, from entry i on: s holds the two totals and the
\* accounts appended so far
RECURSIVE SummaryLoop(_, _, _)
SummaryLoop(entries, i, s) ==
    IF i > Len(entries) THEN s
    ELSE LET e == entries[i]
             s1 == [s EXCEPT !.AffectedAccounts = Append(@, e.AccountID)]
         IN  SummaryLoop(entries, i + 1,
                IF e.Type = Debit
                THEN [s1 EXCEPT !.TotalDebits =
                         Money(s.TotalDebits.Amount + e.Amount, e.Currency)]
                ELSE [s1 EXCEPT !.TotalCredits =
                         Money(s.TotalCredits.Amount + e.Amount, e.Currency)])

\* processor.go:265-293; tx.Entries[0] of a transaction without entries is
\* an index out of range
GetTransactionSummary(entries) ==
    LET s == SummaryLoop(entries, 1,
                TransactionSummary(FALSE, NoMoney, NoMoney, NoMoney,
                                   Len(entries), <<>>))
    IN  IF Len(entries) = 0 THEN [s EXCEPT !.panicked = TRUE]
        ELSE [s EXCEPT !.NetAmount =
                 Money(s.TotalDebits.Amount - s.TotalCredits.Amount,
                       entries[1].Currency)]

ValIdle == vtx = <<>> /\ vres = NoResult /\ rev = <<>> /\ summary = NoSummary

\* the caller of GetTransactionSummary
RunSummary ==
    /\ ~summary.done
    /\ summary' = GetTransactionSummary(vtx)
    /\ UNCHANGED <<vtx, vres, rev, storeVars, concVars, procVars, libVars>>

\* the caller of the validator
RunValidate ==
    /\ ~vres.done
    /\ vres' = Validate(vtx)
    /\ UNCHANGED <<vtx, rev, summary, storeVars, concVars, procVars, libVars>>

(***************************************************************************)
(* BasicTransactionProcessor                                                *)
(***************************************************************************)
Draft == "DRAFT"
Pending == "PENDING"
Posted == "POSTED"
Voided == "VOIDED"
Statuses == {Draft, Pending, Posted, Voided}
Journal == "JOURNAL"

\* a nil *time.Time, and the zero time
NoTime == 0

TxObjs == {"t1", "t2"}
TxID(t) == IF t = "t1" THEN "TX001" ELSE "TX002"

Entry(acc, amt, cur, typ) ==
    [AccountID |-> acc, Amount |-> amt, Currency |-> cur, Type |-> typ]

\* NewTestTransaction's entries, an unbalanced pair and a single entry
TxShapes ==
    { <<Entry("A", 1, "USD", Debit), Entry("B", 1, "USD", Credit)>>,
      <<Entry("A", 2, "USD", Debit), Entry("B", 1, "USD", Credit)>>,
      <<Entry("A", 1, "USD", Debit)>> }

Transaction(id, status, entries, postedAt) ==
    [ID |-> id, Type |-> Journal, Status |-> status, Entries |-> entries,
     LastModified |-> NoTime, PostedAt |-> postedAt, VoidedAt |-> NoTime,
     VoidReason |-> "", ReversedAt |-> NoTime, ReversalID |-> "",
     ReversedFrom |-> ""]

PRet(op, t, err) == [op |-> op, t |-> t, err |-> err]

Reversal == "REVERSAL"

TxIds == {TxID(t) : t \in TxObjs}

\* fmt.Sprintf("REV-%s", origTx.ID)
RevID(id) == "REV-" \o id

\* the ids the repository is asked for
RepoIds == TxIds \cup {RevID(id) : id \in TxIds}

\* var tx Transaction: the zero value, also what the repository holds for an
\* id that is not stored
NoTx == Transaction("", "", <<>>, NoTime)

EmptyRepo == [id \in RepoIds |-> NoTx]

\* context.Background(), and a context whose cancel function was called
Background == "background"
Cancelled == "cancelled"

Goroutines == {"g1", "g2"}

\* a call in flight: pc is where it stands, tx and rev are its local
\* transaction and reversal, err is what it returned
Call(op, id, reason, pc_, tx, rev_, err) ==
    [op |-> op, id |-> id, reason |-> reason, pc |-> pc_, tx |-> tx,
     rev |-> rev_, err |-> err]

\* no goroutine of its own calls the processor
CallIdle ==
    /\ ctx = Background
    /\ inflight = [g \in Goroutines |-> Call("none", "", "", "done", NoTx, NoTx, "")]

ProcIdle ==
    /\ CallIdle
    /\ txs = [t \in TxObjs |-> Transaction(TxID(t), Draft, <<>>, NoTime)]
    /\ calls = <<>>
    /\ clock = 1
    /\ pret = PRet("Init", "none", "ok")
    /\ repo = EmptyRepo

\* the answers of the storage.Repository behind the processor
RepoErrs == {"ok", "error"}

\* mutant: a Posted transaction is processed again
CanProcessPosted(tx) == tx.Status \in {Draft, Pending, Posted}

\* processor.go:184
CanProcess(tx) == tx.Status \in {Draft, Pending}

\* mutant: posted-at is not stamped
StampStatusOnly(tx, now) == [tx EXCEPT !.Status = Posted, !.LastModified = now]

\* processor.go:189-192
Stamp(tx, now) ==
    [tx EXCEPT !.Status = Posted, !.PostedAt = now, !.LastModified = now]

RepoCall(method, t, tx, err) == [method |-> method, obj |-> t, tx |-> tx, err |-> err]

ProcessTransaction(t) ==
    LET tx == txs[t]
        result == Validate(tx.Entries)
    IN  /\ IF ~result.Valid
           THEN /\ pret' = PRet("ProcessTransaction", t, "validation_failed")
                /\ UNCHANGED <<txs, calls, clock>>
           ELSE IF ~CanProcess(tx)
           THEN /\ pret' = PRet("ProcessTransaction", t, "invalid_status")
                /\ UNCHANGED <<txs, calls, clock>>
           ELSE /\ Len(calls) < MaxCalls
                /\ \E rerr \in RepoErrs :
                     LET now == clock + 1
                     IN  /\ clock' = now
                         /\ txs' = [txs EXCEPT ![t] = Stamp(tx, now)]
                         /\ calls' = Append(calls,
                                RepoCall("Update", t, Stamp(tx, now), rerr))
                         /\ pret' = PRet("ProcessTransaction", t,
                                IF rerr = "ok" THEN "ok" ELSE "storage_error")
        /\ UNCHANGED <<repo, callVars, storeVars, concVars, valVars, libVars>>

(***************************************************************************)
(* MemoryBus (pkg/event): handler lists are Go slices, so a list is a       *)
(* backing array and a length, and a Publish in flight reads the cells of   *)
(* the array its slice header points at                                     *)
(***************************************************************************)
Handlers == {"h1", "h2"}
NoHandler == "nil"

TransactionPosted == "transaction.posted"
TransactionVoided == "transaction.voided"
EventTypes == {TransactionPosted, TransactionVoided}

Slice(arr, len) == [arr |-> arr, len |-> len]

\* b.handlers[eventType] for a key that was never subscribed to
NilSlice == Slice(<<>>, 0)

Cap(s) == Len(s.arr)

\* the handlers registered: the cells below the length
Elems(s) == SubSeq(s.arr, 1, s.len)

\* the capacity append allocates when the array is full: 1, 2, 4, 8
GrownCap(c) == IF c = 0 THEN 1 ELSE c + c

\* append has to allocate a new backing array
Reallocates(s) == s.len = Cap(s)

\* append(b.handlers[eventType], handler)
AppendSlice(s, h) ==
    IF ~Reallocates(s)
    THEN Slice([s.arr EXCEPT ![s.len + 1] = h], s.len + 1)
    ELSE Slice([i \in 1..GrownCap(Cap(s)) |->
                  IF i <= s.len THEN s.arr[i]
                  ELSE IF i = s.len + 1 THEN h ELSE NoHandler],
               s.len + 1)

\* the index the loop of Unsubscribe breaks at, 0 when h == handler never holds
IndexOf(s, h) ==
    IF \E i \in 1..s.len : s.arr[i] = h
    THEN CHOOSE i \in 1..s.len :
            s.arr[i] = h /\ \A j \in 1..(i - 1) : s.arr[j] # h
    ELSE 0

\* mutant: the list is cut at the handler found
RemoveAtTruncate(s, i) == Slice(s.arr, i - 1)

\* append(handlers[:i], handlers[i+1:]...): the later cells move down one
\* place in the same array, the last cell keeps its value
RemoveAt(s, i) ==
    Slice([j \in 1..Cap(s) |->
             IF j >= i /\ j < s.len THEN s.arr[j + 1] ELSE s.arr[j]],
          s.len - 1)

\* a cell above index reach is one no slice header reaches: nothing reads it
\* before an append overwrites it, so its value is not kept
Trim(s, reach) ==
    Slice([j \in 1..Cap(s) |-> IF j <= reach THEN s.arr[j] ELSE NoHandler], s.len)

\* no Publish is delivering
NoPub ==
    [type |-> "", len |-> 0, i |-> 0, shared |-> FALSE, arr |-> <<>>,
     atBegin |-> <<>>, delivered |-> <<>>, touched |-> {}]

BusIdle ==
    /\ handlers = [et \in EventTypes |-> NilSlice]
    /\ pub = NoPub

\* the registrations the bus holds
RECURSIVE Registered(_)
Registered(types) ==
    IF types = {} THEN 0
    ELSE LET et == CHOOSE t \in types : TRUE
         IN  handlers[et].len + Registered(types \ {et})

\* Subscribe and Unsubscribe are called while no Publish delivers, or by the
\* handler that Publish is running, for itself
MayMutate(h) == pub.type = "" \/ (pub.i > 1 /\ pub.delivered[pub.i - 1] = h)

\* a mutation of the list of the event type being delivered
Touch(p, et, h) ==
    IF p.type = et THEN [p EXCEPT !.touched = @ \cup {h}] ELSE p

Subscribe(et, h) ==
    /\ MayMutate(h)
    /\ Registered(EventTypes) < MaxSubs
    /\ handlers' = [handlers EXCEPT ![et] = AppendSlice(@, h)]
    /\ pub' = IF pub.type = et /\ pub.shared /\ Reallocates(handlers[et])
              THEN [Touch(pub, et, h) EXCEPT !.shared = FALSE,
                                             !.arr = SubSeq(handlers[et].arr, 1, pub.len)]
              ELSE Touch(pub, et, h)
    /\ UNCHANGED <<engVars, calcVars, storeVars, concVars, procVars, valVars>>

\* the highest cell of the array of et that a slice header reaches, the list
\* being len long
Reach(et, len) ==
    IF pub.type = et /\ pub.shared /\ pub.len > len THEN pub.len ELSE len

\* part_001:50-64, whoever calls it
Remove(et, h) ==
    LET i == IndexOf(handlers[et], h)
    IN  /\ handlers' = IF i = 0 THEN handlers
                       ELSE [handlers EXCEPT
                                ![et] = Trim(RemoveAt(@, i), Reach(et, @.len - 1))]
        /\ pub' = Touch(pub, et, h)
        /\ UNCHANGED <<engVars, calcVars, storeVars, concVars, procVars, valVars>>

Unsubscribe(et, h) == MayMutate(h) /\ Remove(et, h)

\* Unsubscribe called by another goroutine while Publish delivers: the lock
\* it takes is free, Publish gave its read lock back before the loop
UnsubscribeDuring(et, h) == pub.type = et /\ Remove(et, h)

\* part_001:23-25: the slice header is copied under the read lock, which is
\* released before the first handler runs
PublishBegin(et) ==
    /\ pub.type = ""
    /\ pub' = [type |-> et, len |-> handlers[et].len, i |-> 1, shared |-> TRUE,
               arr |-> <<>>, atBegin |-> Elems(handlers[et]),
               delivered |-> <<>>, touched |-> {}]
    /\ UNCHANGED <<handlers, engVars, calcVars, storeVars, concVars, procVars,
                   valVars>>

\* the cell the range loop reads at index i
SnapshotCell(i) ==
    IF pub.shared THEN handlers[pub.type].arr[i] ELSE pub.arr[i]

\* part_001:28-33: one iteration; the handler's error is dropped
Deliver ==
    /\ pub.type # ""
    /\ pub.i <= pub.len
    /\ \E failed \in BOOLEAN :
         pub' = [pub EXCEPT !.i = @ + 1,
                            !.delivered = Append(@, SnapshotCell(pub.i))]
    /\ UNCHANGED <<handlers, engVars, calcVars, storeVars, concVars, procVars,
                   valVars>>

\* the range loop is over
Delivered(p) == p.type # "" /\ p.i > p.len

\* part_001:35: return nil; the slice header of Publish is gone
PublishEnd ==
    /\ Delivered(pub)
    /\ pub' = NoPub
    /\ handlers' = [handlers EXCEPT ![pub.type] = Trim(@, @.len)]
    /\ UNCHANGED <<engVars, calcVars, storeVars, concVars, procVars, valVars>>

(***************************************************************************)
(* BasicValidationEngine (pkg/validation)                                   *)
(***************************************************************************)
Validators == {"v1", "v2", "v3"}
NilValidator == "nil"
NilObject == "nil"

\* Validator.Priority(): v1 and v3 tie, v2 comes first
Priority(v) == IF v = "v2" THEN 1 ELSE 2

Error == "ERROR"
Warning == "WARNING"
Info == "INFO"

\* what one call of Validator.Validate hands back: an error, or the
\* severities of its results
Answers ==
    {[failed |-> TRUE, sevs |-> <<>>]}
    \cup {[failed |-> FALSE, sevs |-> s] :
            s \in {<<>>, <<Info>>, <<Warning>>, <<Error>>, <<Warning, Error>>}}

\* the n-th result of the validator run at position pos
Result(v, pos, n, sev) == [by |-> v, pos |-> pos, n |-> n, Severity |-> sev]

ERec(op, arg, registered, order, answers, results, carried, err) ==
    [op |-> op, arg |-> arg, registered |-> registered, order |-> order,
     answers |-> answers, results |-> results, carried |-> carried, err |-> err]

ValidationIdle ==
    /\ validators = <<>>
    /\ eres = ERec("Init", "", <<>>, <<>>, <<>>, <<>>, <<>>, "ok")

Count(s, x) == Cardinality({i \in 1..Len(s) : s[i] = x})

IsSorted(vs) ==
    \A i, j \in 1..Len(vs) : i < j => Priority(vs[i]) <= Priority(vs[j])

\* mutant: the list is left in registration order
SortSliceNone(s) == {s}

\* sort.Slice(e.validators, less): the same validators ascending by priority;
\* sort.Slice is not stable, so validators of one priority come in any order
SortSlice(s) ==
    {p \in [1..Len(s) -> Validators] :
        /\ \A v \in Validators : Count(p, v) = Count(s, v)
        /\ IsSorted(p)}

RegisterValidator(v) ==
    /\ IF v = NilValidator
       THEN /\ eres' = ERec("RegisterValidator", v, validators, <<>>, <<>>,
                            <<>>, <<>>, "nil_validator")
            /\ UNCHANGED validators
       ELSE /\ Len(validators) < MaxValidators
            /\ validators' \in SortSlice(Append(validators, v))
            /\ eres' = ERec("RegisterValidator", v, validators, <<>>, <<>>,
                            <<>>, <<>>, "ok")
    /\ UNCHANGED <<busVars, calcVars, storeVars, concVars, procVars, valVars>>

\* part_008:56-62: allResults after the validators from position i on
RECURSIVE Accumulate(_, _, _)
Accumulate(vs, ans, i) ==
    IF i > Len(vs) THEN <<>>
    ELSE [n \in 1..Len(ans[i].sevs) |-> Result(vs[i], i, n, ans[i].sevs[n])]
         \o Accumulate(vs, ans, i + 1)

\* mutant: only the first result is looked at
HasErrorsFirst(results) == Len(results) > 0 /\ results[1].Severity = Error

\* part_008:65-69
HasErrors(results) == \E i \in 1..Len(results) : results[i].Severity = Error

EngineValidate(obj) ==
    /\ IF obj = NilObject
       THEN eres' = ERec("Validate", obj, validators, <<>>, <<>>, <<>>, <<>>,
                         "nil_object")
       ELSE \E ans \in [1..Len(validators) -> Answers] :
              LET k == IF \E i \in 1..Len(ans) : ans[i].failed
                       THEN CHOOSE i \in 1..Len(ans) :
                               ans[i].failed /\ \A j \in 1..(i - 1) : ~ans[j].failed
                       ELSE 0
                  allResults == Accumulate(validators, ans, 1)
              IN  IF k # 0
                  THEN eres' = ERec("Validate", obj, validators,
                                    SubSeq(validators, 1, k), SubSeq(ans, 1, k),
                                    <<>>, <<>>, "validator_error")
                  ELSE IF HasErrors(allResults)
                  THEN eres' = ERec("Validate", obj, validators, validators, ans,
                                    allResults, allResults, "validation_failed")
                  ELSE eres' = ERec("Validate", obj, validators, validators, ans,
                                    allResults, <<>>, "ok")
    /\ UNCHANGED <<validators, busVars, calcVars, storeVars, concVars, procVars,
                   valVars>>

(***************************************************************************)
(* defaultReportCalculator (pkg/reporting) over a transaction store that    *)
(* answers Query as its filters ask, and an account store                   *)
(***************************************************************************)
Dates == 1..MaxDate

\* time.Time{}
BeginningOfTime == 0

Asset == "ASSET"
Liability == "LIABILITY"
Equity == "EQUITY"
Expense == "EXPENSE"

\* the accounts the account store holds, in the order its Query returns them
AccountList == <<"A", "B", "C", "E">>
AccountIds == {AccountList[i] : i \in 1..Len(AccountList)}

\* acc.Type
AccountType(acc) ==
    IF acc \in {"A", "C"} THEN Asset
    ELSE IF acc = "E" THEN Equity
    ELSE Liability

LedgerShapes ==
    { <<Entry("A", 1, "USD", Debit), Entry("B", 1, "USD", Credit)>>,
      <<Entry("A", 2, "USD", Debit)>>,
      <<Entry("B", 1, "USD", Credit)>>,
      <<Entry("A", 1, "EUR", Credit)>> }

LedgerTx(id, date, status, entries) ==
    [ID |-> id, Date |-> date, Status |-> status, Entries |-> entries]

Report(op, acc, start, end, err, balance, opening, closing, net, movements) ==
    [op |-> op, acc |-> acc, start |-> start, end |-> end, err |-> err,
     Balance |-> balance, OpeningBalance |-> opening,
     ClosingBalance |-> closing, NetChange |-> net, Movements |-> movements]

\* statements.LineItem, StatementSection and Statement, and the call that
\* returned the statement
LineItem(acc, amount) == [Account |-> acc, Amount |-> amount]

StatementSection(title, items, total) ==
    [Title |-> title, Items |-> items, Total |-> total]

Statement(asOf, detail, comparative, err, sections, previous) ==
    [done |-> TRUE, asOf |-> asOf, detail |-> detail,
     comparative |-> comparative, err |-> err, Sections |-> sections,
     ComparativePeriod |-> previous]

\* no statement was asked for
NoStatement == [Statement(0, "", FALSE, "ok", <<>>, <<>>) EXCEPT !.done = FALSE]

CalcIdle ==
    /\ sheet = NoStatement
    /\ ledger = <<>>
    /\ report = Report("Init", "", 0, 0, "ok", NoMoney, NoMoney, NoMoney,
                       NoMoney, <<>>)

\* c.accountStore.Read(ctx, accountID, &acc)
AccountReadErr(acc) == IF acc \in AccountIds THEN "ok" ELSE "not_found"

HasEntryFor(tx, acc) == \E i \in 1..Len(tx.Entries) : tx.Entries[i].AccountID = acc

\* calculator.go:286-306: the stored transactions the four filters let
\* through, by ascending date (the ledger is kept in that order)
getTransactionsForPeriod(acc, start, end) ==
    SelectSeq(ledger, LAMBDA tx :
        /\ HasEntryFor(tx, acc)
        /\ tx.Date >= start
        /\ tx.Date <= end
        /\ tx.Status = Posted)

\* the entries of the transactions, in the order the two loops visit them
RECURSIVE AllEntries(_, _)
AllEntries(transactions, i) ==
    IF i > Len(transactions) THEN <<>>
    ELSE transactions[i].Entries \o AllEntries(transactions, i + 1)

\* mutant: only the Debit entries are counted
RECURSIVE SignedSumDebitsOnly(_, _, _)
SignedSumDebitsOnly(entries, accountType, i) ==
    IF i > Len(entries) THEN 0
    ELSE (IF entries[i].Type = Debit
          THEN (IF accountType \in {Asset, Expense} THEN entries[i].Amount
                ELSE 0 - entries[i].Amount)
          ELSE 0)
         + SignedSumDebitsOnly(entries, accountType, i + 1)

\* calculator.go:323-336 over the entries from position i on
RECURSIVE SignedSum(_, _, _)
SignedSum(entries, accountType, i) ==
    IF i > Len(entries) THEN 0
    ELSE (IF entries[i].Type = Debit
          THEN (IF accountType \in {Asset, Expense} THEN entries[i].Amount
                ELSE 0 - entries[i].Amount)
          ELSE (IF accountType \in {Asset, Expense} THEN 0 - entries[i].Amount
                ELSE entries[i].Amount))
         + SignedSum(entries, accountType, i + 1)

\* calculator.go:308-341
calculateBalanceFromTransactions(transactions, accountType) ==
    IF Len(transactions) = 0 THEN [money |-> Money(0, "USD"), err |-> "ok"]
    ELSE LET currency == transactions[1].Entries[1].Currency
             entries == AllEntries(transactions, 1)
         IN  IF \E i \in 1..Len(entries) : entries[i].Currency # currency
             THEN [money |-> NoMoney, err |-> "mixed_currencies"]
             ELSE [money |-> Money(SignedSum(entries, accountType, 1), currency),
                   err |-> "ok"]

\* calculator.go:343-362
getBalanceAtTime(acc, at) ==
    IF AccountReadErr(acc) # "ok" THEN [money |-> NoMoney, err |-> "read_account"]
    ELSE calculateBalanceFromTransactions(
            getTransactionsForPeriod(acc, BeginningOfTime, at), AccountType(acc))

\* calculator.go:189-204: what CalculateBalance returns
BalanceFor(acc, start, end) ==
    IF AccountReadErr(acc) # "ok" THEN [money |-> NoMoney, err |-> "read_account"]
    ELSE calculateBalanceFromTransactions(
            getTransactionsForPeriod(acc, start, end), AccountType(acc))

CalculateBalance(acc, start, end) ==
    /\ LET b == BalanceFor(acc, start, end)
       IN  report' = Report("CalculateBalance", acc, start, end, b.err,
                            b.money, NoMoney, NoMoney, NoMoney, <<>>)
    /\ UNCHANGED <<ledger, sheet, busVars, engVars, storeVars, concVars, procVars,
                   valVars>>

\* calculator.go:227-241: one movement per entry of the account
RECURSIVE Movements(_, _, _)
Movements(transactions, acc, i) ==
    IF i > Len(transactions) THEN <<>>
    ELSE LET tx == transactions[i]
             own == SelectSeq(tx.Entries, LAMBDA e : e.AccountID = acc)
         IN  [n \in 1..Len(own) |->
                [Date |-> tx.Date, Amount |-> Money(own[n].Amount, own[n].Currency),
                 Type |-> own[n].Type, Reference |-> tx.ID]]
             \o Movements(transactions, acc, i + 1)

CalculateChanges(acc, start, end) ==
    LET transactions == getTransactionsForPeriod(acc, start, end)
        opening == getBalanceAtTime(acc, start)
        closing == getBalanceAtTime(acc, end)
    IN  /\ IF opening.err # "ok"
           THEN report' = Report("CalculateChanges", acc, start, end, opening.err,
                                 NoMoney, NoMoney, NoMoney, NoMoney, <<>>)
           ELSE IF closing.err # "ok"
           THEN report' = Report("CalculateChanges", acc, start, end, closing.err,
                                 NoMoney, NoMoney, NoMoney, NoMoney, <<>>)
           ELSE report' = Report("CalculateChanges", acc, start, end, "ok",
                                 NoMoney, opening.money, closing.money,
                                 Money(closing.money.Amount - opening.money.Amount,
                                       closing.money.Currency),
                                 Movements(transactions, acc, 1))
        /\ UNCHANGED <<ledger, sheet, busVars, engVars, storeVars, concVars, procVars,
                       valVars>>

(***************************************************************************)
(* statements.Generator over that calculator and the account store          *)
(***************************************************************************)
DetailLevels == {"detailed", "summary"}

\* g.accounts.Query(ctx, account.Account{Type: accountType}, &accounts)
AccountsOfType(accountType) ==
    SelectSeq(AccountList, LAMBDA acc : AccountType(acc) = accountType)

\* mutant: every account gets a line
IncludeItemAlways(balance, detail) == TRUE

\* generator.go:222
IncludeItem(balance, detail) == balance.Amount # 0 \/ detail = "detailed"

\* generator.go:216-231 from account i on: s holds the error, the items and
\* the total so far
RECURSIVE SectionLoop(_, _, _, _, _)
SectionLoop(accounts, asOf, detail, i, s) ==
    IF i > Len(accounts) \/ s.err # "ok" THEN s
    ELSE LET b == BalanceFor(accounts[i], BeginningOfTime, asOf)
         IN  SectionLoop(accounts, asOf, detail, i + 1,
                IF b.err # "ok" THEN [s EXCEPT !.err = b.err]
                ELSE IF IncludeItem(b.money, detail)
                THEN [s EXCEPT !.items = Append(@, LineItem(accounts[i], b.money)),
                               !.total = @ + b.money.Amount]
                ELSE s)

\* generator.go:202-235: the error and the section
generateBalanceSheetSection(title, accountType, asOf, detail, currency) ==
    LET s == SectionLoop(AccountsOfType(accountType), asOf, detail, 1,
                         [err |-> "ok", items |-> <<>>, total |-> 0])
    IN  [err |-> s.err,
         section |-> StatementSection(title, s.items, Money(s.total, currency))]

\* generator.go:31-58: the three sections, up to the first that fails
BalanceSheetSections(asOf, detail, currency) ==
    LET assets == generateBalanceSheetSection("Assets", Asset, asOf, detail, currency)
        liabs == generateBalanceSheetSection("Liabilities", Liability, asOf,
                                             detail, currency)
        equity == generateBalanceSheetSection("Equity", Equity, asOf, detail,
                                              currency)
    IN  IF assets.err # "ok" THEN [err |-> assets.err, sections |-> <<>>]
        ELSE IF liabs.err # "ok" THEN [err |-> liabs.err, sections |-> <<>>]
        ELSE IF equity.err # "ok" THEN [err |-> equity.err, sections |-> <<>>]
        ELSE [err |-> "ok",
              sections |-> <<assets.section, liabs.section, equity.section>>]

\* generator.go:29-74; the comparative statement is the balance sheet as of
\* back days earlier, generated without a comparative of its own
GenerateBalanceSheet(asOf, detail, comparative, back) ==
    LET now == BalanceSheetSections(asOf, detail, "USD")
        before == BalanceSheetSections(asOf - back, detail, "USD")
    IN  /\ sheet' =
              IF now.err # "ok"
              THEN Statement(asOf, detail, comparative, now.err, <<>>, <<>>)
              ELSE IF comparative /\ before.err # "ok"
              THEN Statement(asOf, detail, comparative, before.err, <<>>, <<>>)
              ELSE Statement(asOf, detail, comparative, "ok", now.sections,
                             IF comparative THEN before.sections ELSE <<>>)
        /\ UNCHANGED <<ledger, report, busVars, engVars, storeVars, concVars,
                       procVars, valVars>>

LibIdle == BusIdle /\ ValidationIdle /\ CalcIdle

(***************************************************************************)
(* Specifications                                                           *)
(***************************************************************************)
\* the store and two callers, each with a *TestEntity of its own
Init == StoreInit /\ ConcIdle /\ ProcIdle /\ ValIdle /\ LibIdle

Next ==
    \/ \E o \in Callers : Create(o)
    \/ \E o \in Callers, id \in Ids : Read(id, o)
    \/ \E o \in Callers : Update(o)
    \/ \E id \in Ids : Delete(id)
    \/ \E o \in Callers, v \in Versions : SetVersion(o, v)
    \/ \E o \in Callers, d \in Data : SetData(o, d)

Spec == Init /\ [][Next]_vars

\* concurrent Updates of one entity
ConcNext ==
    \/ SeedCreate
    \/ SeedVersion
    \/ SeedUpdate
    \/ Begin
    \/ \E p \in Updaters : Lock(p)
    \/ \E p \in Updaters : Check(p)
    \/ \E p \in Updaters : Write(p)

SpecConc == Init /\ [][ConcNext]_vars

\* the validator on every transaction of up to MaxEntries entries
ValEntries ==
    [AccountID : {"A", "B", "C"}, Amount : {1, 2}, Currency : {"USD"}, Type : EntryTypes]
    \cup [AccountID : {"A", "B"}, Amount : {1}, Currency : {"EUR"}, Type : EntryTypes]
    \cup [AccountID : {"A", "B"}, Amount : {0, -1}, Currency : {"USD"}, Type : EntryTypes]

ValInit ==
    /\ StoreInit /\ ConcIdle /\ ProcIdle /\ LibIdle
    /\ vtx \in UNION {[1..n -> ValEntries] : n \in 0..MaxEntries}
    /\ vres = NoResult
    /\ rev = <<>>
    /\ summary = NoSummary

ValNext == RunValidate

SpecValidate == ValInit /\ [][ValNext]_vars

\* the validator and the summary on every transaction of up to MaxEntries
\* entries with positive amounts in one currency
SummaryEntries ==
    [AccountID : {"A", "B", "C"}, Amount : {1, 2}, Currency : {"USD"}, Type : EntryTypes]

SummaryInit ==
    /\ StoreInit /\ ConcIdle /\ ProcIdle /\ LibIdle
    /\ vtx \in UNION {[1..n -> SummaryEntries] : n \in 0..MaxEntries}
    /\ vres = NoResult
    /\ rev = <<>>
    /\ summary = NoSummary

SummaryNext == RunValidate \/ RunSummary

SpecSummary == SummaryInit /\ [][SummaryNext]_vars

\* the processor on caller-built transactions, over a repository that may
\* refuse any write
ProcInit ==
    /\ StoreInit /\ ConcIdle /\ ValIdle /\ LibIdle /\ CallIdle
    /\ \E st \in [TxObjs -> Statuses], sh \in [TxObjs -> TxShapes] :
         txs = [t \in TxObjs |->
                  Transaction(TxID(t), st[t], sh[t],
                              IF st[t] \in {Posted, Voided} THEN 1 ELSE NoTime)]
    /\ calls = <<>>
    /\ clock = 1
    /\ pret = PRet("Init", "none", "ok")
    /\ repo = EmptyRepo

ProcNext == \E t \in TxObjs : ProcessTransaction(t)

SpecProc == ProcInit /\ [][ProcNext]_vars

(***************************************************************************)
(* Properties of the store                                                  *)
(***************************************************************************)
\* what a Read of (t, id) returns now
ReadView(t, id) ==
    IF Stored(t, id) = NoObj
    THEN [found |-> FALSE, val |-> [id |-> "", version |-> 0, data |-> ""]]
    ELSE [found |-> TRUE, val |-> heap[Stored(t, id)]]

\* the step is a call Update(o)
IsUpdateOf(o) == ret'.op = "Update" /\ ret'.o = o /\ heap' = heap

\* C5: an Update of an existing versioned entity succeeds exactly when the
\* caller's version equals the stored version, and the stored version is then
\* the caller's version + 1; otherwise it fails with OptimisticLock carrying
\* the stored (current) and the caller's (expected) version.
C5_UpdateChecksVersion ==
    [][\A o \in TestObjs :
        (IsUpdateOf(o) /\ Stored(getEntityType(o), getEntityID(o)) # NoObj) =>
            LET id == getEntityID(o) IN
            /\ (ret'.err = "ok") <=> (GetVersion(o) = version[id])
            /\ ret'.err = "ok" => version'[id] = GetVersion(o) + 1
            /\ ret'.err # "ok" =>
                  /\ ret'.err = "optimistic_lock"
                  /\ ret'.cur = version[id]
                  /\ ret'.exp = GetVersion(o)
                  /\ version' = version]_vars

\* an Update is refused with the versions of store_test.go: stored 2, caller 1
C5_Witness ==
    /\ ret.op = "Update" /\ ret.err = "optimistic_lock"
    /\ ret.cur = 2 /\ ret.exp = 1
    /\ version[ret.id] = 2

Operations(trail) == [i \in 1..Len(trail) |-> trail[i].Operation]

\* C8: the audit trail of an id holds exactly one record per successful
\* mutation of that id, with the matching operation, oldest first in commit
\* order; a call that returns an error appends none.
C8_AuditComplete ==
    \A id \in Ids :
        /\ Operations(GetAuditTrail(id)) = commits[id]
        /\ \A i \in 1..Len(GetAuditTrail(id)) : GetAuditTrail(id)[i].EntityID = id

\* the trail of store_test.go's "Audit Trail", then a refused call
C8_Witness ==
    /\ Operations(GetAuditTrail("a")) = <<"CREATE", "UPDATE", "DELETE">>
    /\ ret.err # "ok" /\ ret.op \in {"Create", "Update", "Delete"} /\ ret.id = "a"

\* C9: the version the store holds for an id never decreases.
C9_VersionNeverDecreases ==
    [][\A id \in Ids : version'[id] >= version[id]]_vars

\* C10: what a Read returns changes only by a successful Create, Update or
\* Delete, never by a caller writing to an object it passed in or got filled.
C10_StoredStateIsolated ==
    [][(\E t \in Types, id \in Ids : ReadView(t, id)' # ReadView(t, id)) =>
        (ret'.op \in {"Create", "Update", "Delete"} /\ ret'.err = "ok")]_vars

\* C7: an Update with the version carried by a snapshot that Read filled
\* succeeds when the id was not written between that Read and the Update.
C7_ReadModifyUpdateSucceeds ==
    [][\A o \in TestObjs : (IsUpdateOf(o) /\ o \in clean) => ret'.err = "ok"]_vars

(***************************************************************************)
(* Properties of concurrent Updates                                         *)
(***************************************************************************)
AllDone == \A p \in Updaters : pc[p] = "done"
Winners == {p \in Updaters : ures[p].err = "ok"}

\* C6: of the concurrent Updates that all hand in the stored version V exactly
\* one succeeds and leaves the stored version at V+1, every other fails with
\* OptimisticLock(stored = V+1, expected = V), and the stored entity is the
\* winner's.
C6_ExactlyOneWinner ==
    AllDone =>
        /\ Cardinality(Winners) = 1
        /\ \A p \in Updaters :
             /\ p \in Winners =>
                  /\ version["a"] = GetVersion(p) + 1
                  /\ Stored(TestEntityT, "a") = p
             /\ p \notin Winners =>
                  /\ ures[p].err = "optimistic_lock"
                  /\ ures[p].cur = GetVersion(p) + 1
                  /\ ures[p].exp = GetVersion(p)

\* a round that started from V = 3 is over, and a loser was told stored = 4
C6_Witness ==
    /\ AllDone
    /\ version["a"] = 4
    /\ \E p \in Updaters : ures[p].err = "optimistic_lock" /\ ures[p].cur = 4

(***************************************************************************)
(* Properties of the validator                                              *)
(***************************************************************************)
RECURSIVE SumOf(_, _, _)
SumOf(entries, typ, i) ==
    IF i > Len(entries) THEN 0
    ELSE (IF entries[i].Type = typ THEN entries[i].Amount ELSE 0)
         + SumOf(entries, typ, i + 1)

Positions(entries) == 1..Len(entries)

\* the codes of the rules a transaction breaks
ViolatedCodes(entries) ==
    (IF Len(entries) < 2 THEN {ErrCodeInsufficientEntries} ELSE {})
    \cup (IF \E i \in Positions(entries) : entries[i].Amount <= 0
          THEN {ErrCodeInvalidAmount} ELSE {})
    \cup (IF \E i, j \in Positions(entries) : entries[i].Currency # entries[j].Currency
          THEN {ErrCodeMixedCurrencies} ELSE {})
    \cup (IF \E i, j \in Positions(entries) :
               i # j /\ entries[i].AccountID = entries[j].AccountID
          THEN {ErrCodeDuplicateAccount} ELSE {})
    \cup (IF SumOf(entries, Debit, 1) # SumOf(entries, Credit, 1)
          THEN {ErrCodeUnbalanced} ELSE {})

Codes(errors) == {errors[i].Code : i \in 1..Len(errors)}

\* C4: Validate returns Valid with no error exactly when the transaction has
\* two entries or more, only positive amounts, one currency, no account twice
\* and equal debit and credit sums; otherwise the errors carry the code of
\* every rule that is broken (and of no other).
C4_ValidateIffRules ==
    vres.done =>
        /\ vres.Valid <=> (ViolatedCodes(vtx) = {})
        /\ vres.Valid => vres.Errors = <<>>
        /\ Codes(vres.Errors) = ViolatedCodes(vtx)

\* a transaction that breaks four rules at once
C4_Witness ==
    /\ vres.done /\ ~vres.Valid
    /\ Codes(vres.Errors) = {ErrCodeInvalidAmount, ErrCodeMixedCurrencies,
                             ErrCodeDuplicateAccount, ErrCodeUnbalanced}

(***************************************************************************)
(* Properties of ProcessTransaction                                         *)
(***************************************************************************)
\* the step is a call ProcessTransaction(t)
IsProcessOf(t) == pret'.op = "ProcessTransaction" /\ pret'.t = t

Processable(t) == txs[t].Status \in {Draft, Pending} /\ Validate(txs[t].Entries).Valid

LastCall(cs) == cs[Len(cs)]

\* C1: for a valid Draft or Pending transaction ProcessTransaction issues
\* exactly one Update, and when that Update succeeds it returns success with
\* the transaction Posted and posted-at set, at the Update and on return.
C1_ProcessPosts ==
    [][\A t \in TxObjs :
        (IsProcessOf(t) /\ Processable(t)) =>
            /\ Len(calls') = Len(calls) + 1
            /\ SubSeq(calls', 1, Len(calls)) = calls
            /\ LastCall(calls').method = "Update"
            /\ LastCall(calls').obj = t
            /\ LastCall(calls').err = "ok" =>
                 /\ pret'.err = "ok"
                 /\ LastCall(calls').tx.Status = Posted
                 /\ LastCall(calls').tx.PostedAt # NoTime
                 /\ txs'[t].Status = Posted
                 /\ txs'[t].PostedAt # NoTime]_vars

\* a transaction was posted after the write of the other one was refused
C1_Witness ==
    /\ pret.op = "ProcessTransaction" /\ pret.err = "ok"
    /\ Len(calls) = 2
    /\ calls[1].err = "error" /\ calls[2].err = "ok"
    /\ calls[2].obj = pret.t /\ calls[1].obj # pret.t
    /\ txs[pret.t].Status = Posted /\ txs[pret.t].PostedAt = clock

\* C2: when the transaction fails validation or is not Draft or Pending,
\* ProcessTransaction returns an error, makes no call on the repository and
\* leaves status and posted-at as they were.
C2_RefusedLeavesAlone ==
    [][\A t \in TxObjs :
        (IsProcessOf(t) /\ ~Processable(t)) =>
            /\ pret'.err # "ok"
            /\ calls' = calls
            /\ txs'[t].Status = txs[t].Status
            /\ txs'[t].PostedAt = txs[t].PostedAt]_vars

\* an unbalanced Draft was refused and no write was ever made
C2_Witness ==
    /\ pret.op = "ProcessTransaction" /\ pret.err = "validation_failed"
    /\ txs[pret.t].Status = Draft /\ txs[pret.t].PostedAt = NoTime
    /\ Codes(Validate(txs[pret.t].Entries).Errors) = {ErrCodeUnbalanced}
    /\ calls = <<>>

\* C3: when the Update fails, the transaction object has on return the status
\* and posted-at it had before the call.
C3_FailedWriteRestores ==
    [][\A t \in TxObjs :
        (IsProcessOf(t) /\ Len(calls') > Len(calls) /\ LastCall(calls').err # "ok") =>
            /\ txs'[t].Status = txs[t].Status
            /\ txs'[t].PostedAt = txs[t].PostedAt]_vars

(***************************************************************************)
(* Properties of the audit records                                          *)
(***************************************************************************)
\* what the snapshot held by an audit record shows when it is looked at in
\* heap h: PreviousState and NewState are the pointers recordAudit was given
SnapshotIn(h, ref) ==
    IF ref = NoObj THEN [id |-> "", version |-> 0, data |-> ""] ELSE h[ref]

LastRecord(trail) == trail[Len(trail)]

\* C11: the record a successful Update appends holds as previous state what
\* was stored just before it and as new state what it stored, and the two
\* snapshots of an Update record never change afterwards.
C11_AuditSnapshotsFixed ==
    [][/\ \A o \in TestObjs :
            (IsUpdateOf(o) /\ ret'.err = "ok") =>
                LET id == getEntityID(o)
                    rec == LastRecord(audit'[id])
                IN  /\ rec.Operation = "UPDATE"
                    /\ SnapshotIn(heap', rec.PreviousState)
                         = ReadView(getEntityType(o), id).val
                    /\ SnapshotIn(heap', rec.NewState) = heap[o]
       /\ \A id \in Ids : \A i \in 1..Len(audit[id]) :
            audit[id][i].Operation = "UPDATE" =>
                /\ audit'[id][i] = audit[id][i]
                /\ SnapshotIn(heap', audit[id][i].PreviousState)
                     = SnapshotIn(heap, audit[id][i].PreviousState)
                /\ SnapshotIn(heap', audit[id][i].NewState)
                     = SnapshotIn(heap, audit[id][i].NewState)]_vars

(***************************************************************************)
(* The store with entities of two types under one id                        *)
(***************************************************************************)
\* a *TestEntity and a *SimpleEntity, both built with id "a"
TypedCallers == {"e1", "s1"}

TypesNext ==
    \/ \E o \in TypedCallers : Create(o)
    \/ \E o \in TypedCallers, id \in Ids : Read(id, o)
    \/ \E o \in TypedCallers : Update(o)
    \/ \E id \in Ids : Delete(id)
    \/ \E v \in Versions : SetVersion("e1", v)
    \/ \E o \in TypedCallers, d \in Data : SetData(o, d)

SpecTypes == Init /\ [][TypesNext]_vars

\* the step is a Create, Update or Delete that returned an error
IsFailedMutation == ret'.op \in {"Create", "Update", "Delete"} /\ ret'.err # "ok"

\* the step is a Read of the id that the call before it deleted
IsReadAfterDelete ==
    /\ ret.op = "Delete" /\ ret.err = "ok"
    /\ ret'.op = "Read" /\ ret'.id = ret.id

\* C12: a Create, Update or Delete that returns an error leaves the stored
\* entities, the versions and the audit trails as they were, and a Read of an
\* id that was just deleted fails.
C12_FailedMutationLeavesStore ==
    [][/\ IsFailedMutation =>
            /\ \A t \in Types, id \in Ids : ReadView(t, id)' = ReadView(t, id)
            /\ version' = version
            /\ audit' = audit
       /\ IsReadAfterDelete => ret'.err # "ok"]_vars

(***************************************************************************)
(* BasicTransactionProcessor.ProcessTransactionBatch                        *)
(***************************************************************************)
\* the lists a caller hands in: the transaction objects, each at most once
Batches ==
    {<<>>} \cup {<<t>> : t \in TxObjs}
    \cup {p \in TxObjs \X TxObjs : p[1] # p[2]}

BRet(b, t, err) ==
    [op |-> "ProcessTransactionBatch", t |-> t, err |-> err, batch |-> b]

\* processor.go:211-222 for one transaction: the error of the pre-validation
PreCheck(tx) ==
    IF ~Validate(tx.Entries).Valid THEN "validation_failed"
    ELSE IF ~CanProcess(tx) THEN "invalid_status"
    ELSE "ok"

\* mutant: only the first transaction of the batch is pre-validated
PreValidateFirstOnly(b) ==
    IF Len(b) > 0 /\ PreCheck(txs[b[1]]) # "ok" THEN 1 ELSE 0

\* processor.go:210-223: the index of the first transaction that is refused,
\* 0 when none is
PreValidate(b) ==
    IF \E i \in 1..Len(b) : PreCheck(txs[b[i]]) # "ok"
    THEN CHOOSE i \in 1..Len(b) :
            /\ PreCheck(txs[b[i]]) # "ok"
            /\ \A j \in 1..(i - 1) : PreCheck(txs[b[j]]) = "ok"
    ELSE 0

\* processor.go:227-231
StampAll(b, now) ==
    [t \in TxObjs |-> IF \E i \in 1..Len(b) : b[i] = t
                      THEN Stamp(txs[t], now) ELSE txs[t]]

\* mutant: nothing is rolled back
NeedsRollbackNever(tx) == FALSE

\* processor.go:241
NeedsRollback(tx) == tx.Status = Posted

\* processor.go:242-244
Unstamp(tx, now) ==
    [tx EXCEPT !.Status = Draft, !.PostedAt = NoTime, !.LastModified = now]

\* processor.go:240-247: the objects after the rollback loop
RollbackAll(b, stamped, now) ==
    [t \in TxObjs |-> IF (\E i \in 1..Len(b) : b[i] = t) /\ NeedsRollback(stamped[t])
                      THEN Unstamp(stamped[t], now) ELSE stamped[t]]

\* the index of the first refused write, 0 when every write is accepted
FirstFailure(ans, n) ==
    IF \E i \in 1..n : ans[i] # "ok"
    THEN CHOOSE i \in 1..n : ans[i] # "ok" /\ \A j \in 1..(i - 1) : ans[j] = "ok"
    ELSE 0

\* processor.go:235-236: the writes up to and including the first refused one
BatchWrites(b, stamped, ans, k) ==
    [i \in 1..(IF k = 0 THEN Len(b) ELSE k) |->
        RepoCall("Update", b[i], stamped[b[i]], ans[i])]

\* processor.go:240-247: the compensating writes, in list order
RECURSIVE BatchCompensations(_, _, _, _, _)
BatchCompensations(b, stamped, now, cans, i) ==
    IF i > Len(b) THEN <<>>
    ELSE (IF NeedsRollback(stamped[b[i]])
          THEN <<RepoCall("Update", b[i], Unstamp(stamped[b[i]], now), cans[i])>>
          ELSE <<>>)
         \o BatchCompensations(b, stamped, now, cans, i + 1)

ProcessTransactionBatch(b) ==
    LET bad == PreValidate(b)
    IN  /\ IF Len(b) = 0
           THEN /\ pret' = BRet(b, "none", "ok")
                /\ UNCHANGED <<txs, calls, clock>>
           ELSE IF bad # 0
           THEN /\ pret' = BRet(b, b[bad], PreCheck(txs[b[bad]]))
                /\ UNCHANGED <<txs, calls, clock>>
           ELSE /\ Len(calls) < MaxCalls
                /\ \E ans \in [1..Len(b) -> RepoErrs], cans \in [1..Len(b) -> RepoErrs] :
                     LET now == clock + 1
                         stamped == StampAll(b, now)
                         k == FirstFailure(ans, Len(b))
                     IN  IF k = 0
                         THEN /\ txs' = stamped
                              /\ calls' = calls \o BatchWrites(b, stamped, ans, k)
                              /\ clock' = now
                              /\ pret' = BRet(b, "none", "ok")
                         ELSE /\ txs' = RollbackAll(b, stamped, now + 1)
                              /\ calls' = calls \o BatchWrites(b, stamped, ans, k)
                                   \o BatchCompensations(b, stamped, now + 1, cans, 1)
                              /\ clock' = now + 1
                              /\ pret' = BRet(b, b[k], "storage_error")
        /\ UNCHANGED <<repo, callVars, storeVars, concVars, valVars, libVars>>

BatchNext == \E b \in Batches : ProcessTransactionBatch(b)

SpecBatch == ProcInit /\ [][BatchNext]_vars

(***************************************************************************)
(* Properties of ProcessTransactionBatch                                    *)
(***************************************************************************)
\* the step is a call ProcessTransactionBatch(b)
IsBatchOf(b) == pret'.op = "ProcessTransactionBatch" /\ pret'.batch = b

Members(b) == {b[i] : i \in 1..Len(b)}

\* the calls the step made on the repository
NewCalls == SubSeq(calls', Len(calls) + 1, Len(calls'))

\* C13: when a transaction of the batch fails validation or is not Draft or
\* Pending, the batch returns an error naming such a transaction, makes no
\* call on the repository and leaves status and posted-at of every
\* transaction object as they were.
C13_BatchRefusedLeavesAlone ==
    [][\A b \in Batches :
        (IsBatchOf(b) /\ \E t \in Members(b) : ~Processable(t)) =>
            /\ pret'.err \in {"validation_failed", "invalid_status"}
            /\ pret'.t \in Members(b)
            /\ ~Processable(pret'.t)
            /\ calls' = calls
            /\ \A t \in TxObjs :
                 /\ txs'[t].Status = txs[t].Status
                 /\ txs'[t].PostedAt = txs[t].PostedAt]_vars

\* the batch of the test: TX001 is a valid Draft, TX002 is Posted already
C13_Witness ==
    /\ pret.op = "ProcessTransactionBatch" /\ pret.err = "invalid_status"
    /\ pret.batch = <<"t1", "t2">> /\ pret.t = "t2"
    /\ txs["t1"].Status = Draft /\ txs["t1"].PostedAt = NoTime
    /\ Validate(txs["t1"].Entries).Valid
    /\ txs["t2"].Status = Posted
    /\ calls = <<>>

\* the index of the first write of the step that was refused, 0 when none was
FirstRefused(nc, n) ==
    IF \E i \in 1..n : i <= Len(nc) /\ nc[i].err # "ok"
    THEN CHOOSE i \in 1..n :
            /\ i <= Len(nc) /\ nc[i].err # "ok"
            /\ \A j \in 1..(i - 1) : nc[j].err = "ok"
    ELSE 0

IsPostingWrite(c, t) ==
    /\ c.method = "Update" /\ c.obj = t
    /\ c.tx.Status = Posted /\ c.tx.PostedAt # NoTime

IsCompensation(c, t) ==
    /\ c.method = "Update" /\ c.obj = t
    /\ c.tx.Status = Draft /\ c.tx.PostedAt = NoTime

\* C14: phase 2 writes the transactions in list order; when the k-th write
\* fails, a compensating Update with status Draft and no posted-at follows
\* for every transaction written before it and the call returns the error of
\* the k-th write, whatever the compensating writes return; when no write
\* fails every transaction is written and returned Posted with posted-at set.
C14_BatchWritesAndCompensates ==
    [][\A b \in Batches \ {<<>>} :
        (IsBatchOf(b) /\ \A t \in Members(b) : Processable(t)) =>
            LET nc == NewCalls
                k == FirstRefused(nc, Len(b))
                n == IF k = 0 THEN Len(b) ELSE k
            IN  /\ Len(nc) >= n
                /\ \A i \in 1..n : IsPostingWrite(nc[i], b[i])
                /\ k = 0 =>
                     /\ Len(nc) = Len(b)
                     /\ pret'.err = "ok"
                     /\ \A t \in Members(b) :
                          txs'[t].Status = Posted /\ txs'[t].PostedAt # NoTime
                /\ k # 0 =>
                     /\ pret'.err = "storage_error" /\ pret'.t = b[k]
                     /\ \A j \in 1..(k - 1) :
                          \E m \in (k + 1)..Len(nc) : IsCompensation(nc[m], b[j])]_vars

\* the second write of a batch was refused and so was the compensating write
\* for the first
C14_Witness ==
    /\ pret.op = "ProcessTransactionBatch" /\ pret.err = "storage_error"
    /\ Len(pret.batch) = 2 /\ pret.t = pret.batch[2]
    /\ Len(calls) = 4
    /\ calls[1].obj = pret.batch[1] /\ calls[1].err = "ok"
    /\ calls[2].obj = pret.batch[2] /\ calls[2].err = "error"
    /\ IsCompensation(calls[3], pret.batch[1]) /\ calls[3].err = "error"

\* C15: after a batch that failed on a write in phase 2, every transaction
\* object of the batch has the status and the posted-at it had before the
\* call.
C15_BatchFailureRestores ==
    [][\A b \in Batches :
        (IsBatchOf(b) /\ pret'.err = "storage_error") =>
            \A t \in Members(b) :
                /\ txs'[t].Status = txs[t].Status
                /\ txs'[t].PostedAt = txs[t].PostedAt]_vars

(***************************************************************************)
(* VoidTransaction and ReverseTransaction over a repository that holds the  *)
(* transactions by id, reads by copying out and updates only what it holds  *)
(* (MemoryStore.Read and MemoryStore.Update for an entity without a version)*)
(***************************************************************************)
Reasons == {"err", "dup"}

\* repo.Read(ctx, txID, &tx): the error, and tx after the call
RepoReadErr(id) == IF repo[id] = NoTx THEN "not_found" ELSE "ok"

GetTransaction(id) == repo[id]

\* repo.Update(ctx, tx) on repository r: only an id that is stored is written
RepoUpdateErr(r, tx) ==
    IF tx.ID \in RepoIds /\ r[tx.ID] # NoTx THEN "ok" ELSE "not_found"

RepoUpdate(r, tx) ==
    IF RepoUpdateErr(r, tx) = "ok" THEN [r EXCEPT ![tx.ID] = tx] ELSE r

LRet(op, id, reason, err) == [op |-> op, t |-> id, err |-> err, reason |-> reason]

\* mutant: any stored transaction may be voided
VoidErrNone(tx) == "ok"

\* processor.go:304-309
VoidErr(tx) ==
    IF tx.Status # Posted THEN "not_posted"
    ELSE IF tx.VoidedAt # NoTime THEN "already_voided"
    ELSE "ok"

\* processor.go:312-316
StampVoided(tx, now, reason) ==
    [tx EXCEPT !.Status = Voided, !.VoidedAt = now, !.VoidReason = reason,
               !.LastModified = now]

VoidTransaction(id, reason) ==
    LET tx == GetTransaction(id)
    IN  /\ IF RepoReadErr(id) # "ok"
           THEN /\ pret' = LRet("VoidTransaction", id, reason, "not_found")
                /\ UNCHANGED <<calls, clock, repo>>
           ELSE IF VoidErr(tx) # "ok"
           THEN /\ pret' = LRet("VoidTransaction", id, reason, VoidErr(tx))
                /\ UNCHANGED <<calls, clock, repo>>
           ELSE /\ Len(calls) < MaxCalls
                /\ LET now == clock + 1
                       voided == StampVoided(tx, now, reason)
                       err == RepoUpdateErr(repo, voided)
                   IN  /\ clock' = now
                       /\ repo' = RepoUpdate(repo, voided)
                       /\ calls' = Append(calls, RepoCall("Update", id, voided, err))
                       /\ pret' = LRet("VoidTransaction", id, reason,
                                       IF err = "ok" THEN "ok" ELSE "storage_error")
        /\ UNCHANGED <<txs, callVars, storeVars, concVars, valVars, libVars>>

\* mutant: the entry type is kept
ReverseKeep(typ) == typ

\* EntryType.Reverse
Reverse(typ) == IF typ = Debit THEN Credit ELSE Debit

\* processor.go:359-366
ReverseEntries(entries) ==
    [i \in 1..Len(entries) |->
        [AccountID |-> entries[i].AccountID, Amount |-> entries[i].Amount,
         Currency |-> entries[i].Currency, Type |-> Reverse(entries[i].Type)]]

\* processor.go:336-341
ReverseErr(tx) ==
    IF tx.Status # Posted THEN "not_posted"
    ELSE IF tx.ReversedAt # NoTime THEN "already_reversed"
    ELSE "ok"

\* processor.go:345-366
ReversalOf(orig, now) ==
    [ID |-> RevID(orig.ID), Type |-> Reversal, Status |-> Draft,
     Entries |-> ReverseEntries(orig.Entries), LastModified |-> now,
     PostedAt |-> NoTime, VoidedAt |-> NoTime, VoidReason |-> "",
     ReversedAt |-> NoTime, ReversalID |-> "", ReversedFrom |-> orig.ID]

\* processor.go:375-377
StampReversed(tx, now, reversalID) ==
    [tx EXCEPT !.ReversedAt = now, !.ReversalID = reversalID, !.LastModified = now]

\* mutant: the outcome of posting the reversal is ignored
ProcessErrNone(r, tx, now) == "ok"

\* ProcessTransaction(ctx, reversalTx) as ReverseTransaction calls it: the
\* error it returns
ProcessErr(r, tx, now) ==
    IF ~Validate(tx.Entries).Valid THEN "validation_failed"
    ELSE IF ~CanProcess(tx) THEN "invalid_status"
    ELSE IF RepoUpdateErr(r, Stamp(tx, now)) # "ok" THEN "storage_error"
    ELSE "ok"

\* whether that ProcessTransaction reached its repo.Update
ProcessWrites(tx) == Validate(tx.Entries).Valid /\ CanProcess(tx)

\* processor.go:328-386; refused says that the repository refuses the update
\* of the original for a reason of its own (the Update of a
\* storage.Repository may fail at any call)
ReverseTransactionOver(id, reason, refused) ==
    LET origTx == GetTransaction(id)
    IN  /\ IF RepoReadErr(id) # "ok"
           THEN /\ pret' = LRet("ReverseTransaction", id, reason, "not_found")
                /\ UNCHANGED <<calls, clock, repo>>
           ELSE IF ReverseErr(origTx) # "ok"
           THEN /\ pret' = LRet("ReverseTransaction", id, reason, ReverseErr(origTx))
                /\ UNCHANGED <<calls, clock, repo>>
           ELSE /\ Len(calls) < MaxCalls
                /\ LET now == clock + 1
                       reversalTx == ReversalOf(origTx, now)
                       posted == Stamp(reversalTx, now + 1)
                       perr == ProcessErr(repo, reversalTx, now + 1)
                       r1 == RepoUpdate(repo, posted)
                       c1 == IF ProcessWrites(reversalTx)
                             THEN <<RepoCall("Update", posted.ID, posted,
                                             RepoUpdateErr(repo, posted))>>
                             ELSE <<>>
                       stamped == StampReversed(origTx, now, reversalTx.ID)
                       uerr == IF refused THEN "error"
                               ELSE RepoUpdateErr(r1, stamped)
                   IN  IF perr # "ok"
                       THEN \* a time that was read but written nowhere is not kept
                            /\ clock' = (IF c1 = <<>> THEN clock ELSE now + 1)
                            /\ repo' = repo
                            /\ calls' = calls \o c1
                            /\ pret' = LRet("ReverseTransaction", id, reason,
                                            "process_failed")
                       ELSE /\ clock' = now + 1
                            /\ repo' = (IF uerr = "ok" THEN RepoUpdate(r1, stamped)
                                        ELSE r1)
                            /\ calls' = calls \o c1
                                 \o <<RepoCall("Update", id, stamped, uerr)>>
                            /\ pret' = LRet("ReverseTransaction", id, reason,
                                            IF uerr = "ok" THEN "ok"
                                            ELSE "storage_error")
        /\ UNCHANGED <<txs, callVars, storeVars, concVars, valVars, libVars>>

\* over a repository that refuses a write only when the id is not stored
ReverseTransaction(id, reason) == ReverseTransactionOver(id, reason, FALSE)

\* what the repository holds at the start: per id nothing, or a transaction
\* in any status; a Posted or Voided one carries its posted-at, a Voided one
\* its voided-at and reason
StoredTx(id, status, entries) ==
    [Transaction(id, status, entries,
                 IF status \in {Posted, Voided} THEN 1 ELSE NoTime)
        EXCEPT !.VoidedAt = IF status = Voided THEN 1 ELSE NoTime,
               !.VoidReason = IF status = Voided THEN "err" ELSE ""]

Absent == "ABSENT"

\* a transaction somebody stored under the id a reversal will get
Placeholder(id) == StoredTx(id, Draft, <<>>)

LifeInit ==
    /\ StoreInit /\ ConcIdle /\ ValIdle /\ LibIdle /\ CallIdle
    /\ txs = [t \in TxObjs |-> Transaction(TxID(t), Draft, <<>>, NoTime)]
    /\ calls = <<>>
    /\ clock = 1
    /\ pret = PRet("Init", "none", "ok")
    /\ \E st \in [TxIds -> Statuses \cup {Absent}], sh \in [TxIds -> TxShapes],
          ph \in [TxIds -> BOOLEAN] :
         repo = [id \in RepoIds |->
                   IF id \in TxIds
                   THEN (IF st[id] = Absent THEN NoTx
                         ELSE StoredTx(id, st[id], sh[id]))
                   ELSE (IF \E o \in TxIds : id = RevID(o) /\ ph[o]
                         THEN Placeholder(id) ELSE NoTx)]

LifeNext ==
    \/ \E id \in TxIds, reason \in Reasons : VoidTransaction(id, reason)
    \/ \E id \in TxIds, reason \in Reasons : ReverseTransaction(id, reason)

SpecLife == LifeInit /\ [][LifeNext]_vars

\* the same over a repository whose Update of the original may fail
OutageNext ==
    \/ \E id \in TxIds : VoidTransaction(id, "err")
    \/ \E id \in TxIds, refused \in BOOLEAN :
         ReverseTransactionOver(id, "err", refused)

SpecOutage == LifeInit /\ [][OutageNext]_vars

\* the reversal of the entries of any transaction, built on its own
BuildReversal ==
    /\ rev = <<>>
    /\ vtx # <<>>
    /\ rev' = ReverseEntries(vtx)
    /\ UNCHANGED <<vtx, vres, summary, storeVars, concVars, procVars, libVars>>

ReversalNext == BuildReversal

SpecReversal == ValInit /\ [][ReversalNext]_vars

(***************************************************************************)
(* Properties of VoidTransaction                                            *)
(***************************************************************************)
\* the step is a call VoidTransaction(id, reason)
IsVoidOf(id, reason) ==
    pret'.op = "VoidTransaction" /\ pret'.t = id /\ pret'.reason = reason

Voidable(id) ==
    repo[id] # NoTx /\ repo[id].Status = Posted /\ repo[id].VoidedAt = NoTime

WasVoided(id) ==
    \E i \in 1..Len(calls) :
        calls[i].obj = id /\ calls[i].err = "ok" /\ calls[i].tx.Status = Voided

\* C17: every VoidTransaction call that follows a successful one on the same
\* transaction fails with AlreadyVoided and leaves the stored transaction.
C17_SecondVoidAlreadyVoided ==
    [][\A id \in TxIds, reason \in Reasons :
        (IsVoidOf(id, reason) /\ WasVoided(id)) =>
            /\ pret'.err = "already_voided"
            /\ repo' = repo]_vars

(***************************************************************************)
(* Properties of ReverseTransaction                                         *)
(***************************************************************************)
\* the step is a call ReverseTransaction(id, reason)
IsReverseOf(id, reason) ==
    pret'.op = "ReverseTransaction" /\ pret'.t = id /\ pret'.reason = reason

\* a stored, well-formed Posted transaction that was not reversed
Reversible(id) ==
    /\ repo[id] # NoTx /\ repo[id].Status = Posted /\ repo[id].ReversedAt = NoTime
    /\ Validate(repo[id].Entries).Valid

SwappedEntries(es, rs) ==
    /\ Len(rs) = Len(es)
    /\ \A i \in 1..Len(es) :
         /\ rs[i].AccountID = es[i].AccountID
         /\ rs[i].Amount = es[i].Amount
         /\ rs[i].Currency = es[i].Currency
         /\ rs[i].Type # es[i].Type

\* C18: ReverseTransaction on a stored Posted transaction T that is not yet
\* reversed succeeds, and the store then holds the reversal "REV-"+T.id, of
\* type Reversal, Posted, reversed-from T.id, with T's entries swapped, and T
\* still Posted with reversed-at set and reversal-id "REV-"+T.id.
C18_ReversePostsReversal ==
    [][\A id \in TxIds, reason \in Reasons :
        (IsReverseOf(id, reason) /\ Reversible(id)) =>
            /\ pret'.err = "ok"
            /\ repo'[RevID(id)].ID = RevID(id)
            /\ repo'[RevID(id)].Type = Reversal
            /\ repo'[RevID(id)].Status = Posted
            /\ repo'[RevID(id)].ReversedFrom = id
            /\ SwappedEntries(repo[id].Entries, repo'[RevID(id)].Entries)
            /\ repo'[id].Status = Posted
            /\ repo'[id].ReversedAt # NoTime
            /\ repo'[id].ReversalID = RevID(id)]_vars

\* an earlier call reversed the transaction
WasReversed(id) ==
    \E i \in 1..Len(calls) :
        calls[i].obj = id /\ calls[i].err = "ok" /\ calls[i].tx.ReversedAt # NoTime

\* C19: of the ReverseTransaction calls on a Posted transaction the first
\* succeeds, and every call after a successful one fails with AlreadyReversed
\* without a store write and without another reversal.
C19_ReverseOnce ==
    [][\A id \in TxIds, reason \in Reasons :
        /\ (IsReverseOf(id, reason) /\ Reversible(id) /\ ~WasReversed(id)) =>
              pret'.err = "ok"
        /\ (IsReverseOf(id, reason) /\ WasReversed(id) /\ repo[id].Status = Posted) =>
              /\ pret'.err = "already_reversed"
              /\ calls' = calls
              /\ repo' = repo]_vars

\* the sign rule of calculator.go:323-336 applied to the entries of one
\* account in one currency; debitNormal is an Asset or Expense account
RECURSIVE Contribution(_, _, _, _, _)
Contribution(entries, acc, cur, debitNormal, i) ==
    IF i > Len(entries) THEN 0
    ELSE (IF entries[i].AccountID = acc /\ entries[i].Currency = cur
          THEN (IF (entries[i].Type = Debit) = debitNormal
                THEN entries[i].Amount ELSE 0 - entries[i].Amount)
          ELSE 0)
         + Contribution(entries, acc, cur, debitNormal, i + 1)

Accounts(entries) == {entries[i].AccountID : i \in 1..Len(entries)}
Currencies(entries) == {entries[i].Currency : i \in 1..Len(entries)}

\* the validator's own verdict on the totals
Balanced(entries) == ErrCodeUnbalanced \notin Codes(Validate(entries).Errors)

\* C20: for every account and currency the balance contributed by T's entries
\* and by the entries of the reversal built from T sum to zero, and the
\* reversal is balanced exactly when T is.
C20_ReversalZeroesOut ==
    rev # <<>> =>
        /\ \A acc \in Accounts(vtx) \cup Accounts(rev),
              cur \in Currencies(vtx) \cup Currencies(rev), dn \in BOOLEAN :
             Contribution(vtx, acc, cur, dn, 1) + Contribution(rev, acc, cur, dn, 1) = 0
        /\ Balanced(rev) <=> Balanced(vtx)

\* the reversal of a balanced transaction that moves 2 USD between accounts
\* A and B over three entries
C20_Witness ==
    /\ Len(rev) = 3 /\ Balanced(vtx) /\ Balanced(rev)
    /\ Accounts(vtx) = {"A", "B"}
    /\ Contribution(vtx, "A", "USD", TRUE, 1) = 2
    /\ Contribution(rev, "A", "USD", TRUE, 1) = -2

\* the step posted the reversal of id: a write of it was accepted
ReversalPosted(id) ==
    \E i \in 1..Len(NewCalls) :
        /\ NewCalls[i].obj = RevID(id) /\ NewCalls[i].err = "ok"
        /\ NewCalls[i].tx.Status = Posted

\* C21: when the reversal could not be posted, because it failed validation
\* or because the store refused it, ReverseTransaction returns an error,
\* issues no Update of the original and the stored original keeps reversed-at
\* and reversal-id unset.
C21_StampOnlyAfterPosting ==
    [][\A id \in TxIds, reason \in Reasons :
        (/\ IsReverseOf(id, reason)
         /\ repo[id] # NoTx /\ repo[id].Status = Posted
         /\ repo[id].ReversedAt = NoTime
         /\ ~ReversalPosted(id)) =>
            /\ pret'.err # "ok"
            /\ \A i \in 1..Len(NewCalls) : NewCalls[i].obj # id
            /\ repo'[id] = repo[id]
            /\ repo'[id].ReversedAt = NoTime
            /\ repo'[id].ReversalID = ""]_vars

\* the store refused the write of the reversal of a Posted transaction
C21_Witness ==
    /\ pret.op = "ReverseTransaction" /\ pret.err = "process_failed"
    /\ Len(calls) = 1
    /\ calls[1].obj = RevID(pret.t) /\ calls[1].err = "not_found"
    /\ repo[pret.t].Status = Posted
    /\ repo[pret.t].ReversedAt = NoTime /\ repo[pret.t].ReversalID = ""

(***************************************************************************)
(* The four engine operations over one repository: the caller builds the    *)
(* objects it hands to ProcessTransaction and ProcessTransactionBatch, and  *)
(* repo.Update writes whatever object carries a stored id                   *)
(***************************************************************************)
\* two valid entry lists a caller can build under one id
EngineShapes ==
    { <<Entry("A", 1, "USD", Debit), Entry("B", 1, "USD", Credit)>>,
      <<Entry("A", 2, "USD", Debit), Entry("B", 2, "USD", Credit)>> }

\* processor.go:173-201 with the repository's own answer to repo.Update
ProcessTransactionStored(t) ==
    LET tx == txs[t]
        result == Validate(tx.Entries)
    IN  /\ IF ~result.Valid
           THEN /\ pret' = PRet("ProcessTransaction", t, "validation_failed")
                /\ UNCHANGED <<txs, calls, clock, repo>>
           ELSE IF ~CanProcess(tx)
           THEN /\ pret' = PRet("ProcessTransaction", t, "invalid_status")
                /\ UNCHANGED <<txs, calls, clock, repo>>
           ELSE /\ Len(calls) < MaxCalls
                /\ LET now == clock + 1
                       posted == Stamp(tx, now)
                       err == RepoUpdateErr(repo, posted)
                   IN  /\ clock' = now
                       /\ txs' = [txs EXCEPT ![t] = posted]
                       /\ repo' = RepoUpdate(repo, posted)
                       /\ calls' = Append(calls, RepoCall("Update", t, posted, err))
                       /\ pret' = PRet("ProcessTransaction", t,
                                       IF err = "ok" THEN "ok" ELSE "storage_error")
        /\ UNCHANGED <<callVars, storeVars, concVars, valVars, libVars>>

\* the repository after the repo.Update calls cs, in order
RECURSIVE ApplyWrites(_, _, _)
ApplyWrites(r, cs, i) ==
    IF i > Len(cs) THEN r
    ELSE ApplyWrites(RepoUpdate(r, cs[i].tx), cs, i + 1)

\* processor.go:204-253 with the repository's own answers: a write is
\* refused exactly when its id is not stored
ProcessTransactionBatchStored(b) ==
    LET bad == PreValidate(b)
    IN  /\ IF Len(b) = 0
           THEN /\ pret' = BRet(b, "none", "ok")
                /\ UNCHANGED <<txs, calls, clock, repo>>
           ELSE IF bad # 0
           THEN /\ pret' = BRet(b, b[bad], PreCheck(txs[b[bad]]))
                /\ UNCHANGED <<txs, calls, clock, repo>>
           ELSE /\ Len(calls) < MaxCalls
                /\ LET now == clock + 1
                       stamped == StampAll(b, now)
                       ans == [i \in 1..Len(b) |-> RepoUpdateErr(repo, stamped[b[i]])]
                       k == FirstFailure(ans, Len(b))
                       writes == BatchWrites(b, stamped, ans, k)
                       r1 == ApplyWrites(repo, writes, 1)
                       cans == [i \in 1..Len(b) |->
                                  RepoUpdateErr(r1, Unstamp(stamped[b[i]], now + 1))]
                       comps == BatchCompensations(b, stamped, now + 1, cans, 1)
                   IN  IF k = 0
                       THEN /\ txs' = stamped
                            /\ calls' = calls \o writes
                            /\ repo' = r1
                            /\ clock' = now
                            /\ pret' = BRet(b, "none", "ok")
                       ELSE /\ txs' = RollbackAll(b, stamped, now + 1)
                            /\ calls' = calls \o writes \o comps
                            /\ repo' = ApplyWrites(r1, comps, 1)
                            /\ clock' = now + 1
                            /\ pret' = BRet(b, b[k], "storage_error")
        /\ UNCHANGED <<callVars, storeVars, concVars, valVars, libVars>>

\* the repository holds per id nothing or a transaction in Draft, Posted or
\* Voided; the caller holds, per id, an object in Draft or Posted with
\* entries of its own
EngineInit ==
    /\ StoreInit /\ ConcIdle /\ ValIdle /\ LibIdle /\ CallIdle
    /\ \E st \in [TxObjs -> {Draft, Posted}], sh \in [TxObjs -> EngineShapes] :
         txs = [t \in TxObjs |->
                  Transaction(TxID(t), st[t], sh[t],
                              IF st[t] = Posted THEN 1 ELSE NoTime)]
    /\ calls = <<>>
    /\ clock = 1
    /\ pret = PRet("Init", "none", "ok")
    /\ \E st \in [TxIds -> {Absent, Draft, Posted, Voided}], ph \in BOOLEAN :
         repo = [id \in RepoIds |->
                   IF id \in TxIds
                   THEN (IF st[id] = Absent THEN NoTx
                         ELSE StoredTx(id, st[id],
                                <<Entry("A", 1, "USD", Debit),
                                  Entry("B", 1, "USD", Credit)>>))
                   ELSE (IF ph THEN Placeholder(id) ELSE NoTx)]

EngineNext ==
    \/ \E t \in TxObjs : ProcessTransactionStored(t)
    \/ \E b \in Batches : ProcessTransactionBatchStored(b)
    \/ \E id \in TxIds : VoidTransaction(id, "err")
    \/ \E id \in TxIds : ReverseTransaction(id, "err")

SpecEngine == EngineInit /\ [][EngineNext]_vars

\* the four operations called with a context that is live or was cancelled
\* before the call; the callers hold two Draft transactions, the repository
\* holds per id nothing or a Posted transaction
CtxInit ==
    /\ StoreInit /\ ConcIdle /\ ValIdle /\ LibIdle
    /\ ctx \in {Background, Cancelled}
    /\ inflight = [g \in Goroutines |-> Call("none", "", "", "done", NoTx, NoTx, "")]
    /\ \E sh \in [TxObjs -> EngineShapes] :
         txs = [t \in TxObjs |-> Transaction(TxID(t), Draft, sh[t], NoTime)]
    /\ calls = <<>>
    /\ clock = 1
    /\ pret = PRet("Init", "none", "ok")
    /\ \E st \in [TxIds -> {Absent, Posted}], ph \in BOOLEAN :
         repo = [id \in RepoIds |->
                   IF id \in TxIds
                   THEN (IF st[id] = Absent THEN NoTx
                         ELSE StoredTx(id, st[id],
                                <<Entry("A", 1, "USD", Debit),
                                  Entry("B", 1, "USD", Credit)>>))
                   ELSE (IF ph THEN Placeholder(id) ELSE NoTx)]

SpecCtx == CtxInit /\ [][EngineNext]_vars

(***************************************************************************)
(* Properties of the transaction lifecycle                                  *)
(***************************************************************************)
\* the stored transaction is in a terminal state
Terminal(tx) ==
    tx # NoTx /\ (tx.Status = Voided \/ (tx.Status = Posted /\ tx.ReversalID # ""))

\* the status, the void fields and the reversal fields of a transaction
LifecycleFields(tx) ==
    <<tx.Status, tx.VoidedAt, tx.VoidReason, tx.ReversedAt, tx.ReversalID>>

\* C22: once a stored transaction is Voided, or is Posted with a non-empty
\* reversal id, no VoidTransaction, ReverseTransaction, ProcessTransaction or
\* ProcessTransactionBatch changes its stored status, void fields or reversal
\* fields
C22_TerminalStatesStay ==
    [][\A id \in TxIds :
          Terminal(repo[id]) =>
             LifecycleFields(repo'[id]) = LifecycleFields(repo[id])]_vars

\* C23: once an id is stored with status Posted, no engine operation makes
\* its stored status Draft or Pending again or changes its stored entries
C23_PostedStaysPosted ==
    [][\A id \in TxIds :
          (repo[id] # NoTx /\ repo[id].Status = Posted) =>
             /\ repo'[id].Status \notin {Draft, Pending}
             /\ repo'[id].Entries = repo[id].Entries]_vars

(***************************************************************************)
(* The event bus, the validation engine and the calculator on their own     *)
(***************************************************************************)
BusNext ==
    \/ \E et \in EventTypes, h \in Handlers : Subscribe(et, h)
    \/ \E et \in EventTypes, h \in Handlers : Unsubscribe(et, h)
    \/ \E et \in EventTypes : PublishBegin(et)
    \/ Deliver
    \/ PublishEnd

SpecBus == Init /\ [][BusNext]_vars

\* one event type, subscriptions made while the bus is quiet, and a goroutine
\* that unsubscribes while another one publishes
RaceNext ==
    \/ \E h \in Handlers : pub.type = "" /\ Subscribe(TransactionPosted, h)
    \/ \E h \in Handlers : UnsubscribeDuring(TransactionPosted, h)
    \/ PublishBegin(TransactionPosted)
    \/ Deliver
    \/ PublishEnd

SpecRace == Init /\ [][RaceNext]_vars

ValidationNext ==
    \/ \E v \in Validators \cup {NilValidator} : RegisterValidator(v)
    \/ \E obj \in {"tx", NilObject} : EngineValidate(obj)

SpecValidation == Init /\ [][ValidationNext]_vars

\* the transaction store holds two transactions, each Posted or Voided, the
\* earlier one first
ReportInit ==
    /\ StoreInit /\ ConcIdle /\ ProcIdle /\ ValIdle /\ BusIdle /\ ValidationIdle
    /\ \E d1 \in Dates, d2 \in Dates, s1 \in {Posted, Voided}, s2 \in {Posted, Voided},
          e1 \in LedgerShapes, e2 \in LedgerShapes :
         /\ d1 <= d2
         /\ ledger = <<LedgerTx("L1", d1, s1, e1), LedgerTx("L2", d2, s2, e2)>>
    /\ report = Report("Init", "", 0, 0, "ok", NoMoney, NoMoney, NoMoney,
                       NoMoney, <<>>)
    /\ sheet = NoStatement

\* the accounts the reports are asked for: X is not in the account store
ReportAccounts == {"A", "B", "X"}

ReportNext ==
    \/ \E acc \in ReportAccounts, start \in Dates, end \in Dates :
         start <= end /\ CalculateBalance(acc, start, end)
    \/ \E acc \in ReportAccounts, start \in Dates, end \in Dates :
         start <= end /\ CalculateChanges(acc, start, end)

SpecReport == ReportInit /\ [][ReportNext]_vars

\* the transactions the balance sheet is drawn from: balanced ones between
\* asset, liability and equity accounts, one-sided ones, and one in EUR
SheetShapes ==
    { <<Entry("A", 1, "USD", Debit), Entry("B", 1, "USD", Credit)>>,
      <<Entry("A", 2, "USD", Debit), Entry("E", 2, "USD", Credit)>>,
      <<Entry("C", 1, "USD", Debit), Entry("A", 1, "USD", Credit)>>,
      <<Entry("A", 2, "USD", Debit), Entry("B", 1, "USD", Credit),
        Entry("E", 1, "USD", Credit)>>,
      <<Entry("A", 2, "USD", Debit)>>,
      <<Entry("B", 1, "USD", Credit)>>,
      <<Entry("C", 1, "USD", Debit)>>,
      <<Entry("A", 1, "EUR", Debit), Entry("B", 1, "EUR", Credit)>> }

SheetInit ==
    /\ StoreInit /\ ConcIdle /\ ProcIdle /\ ValIdle /\ BusIdle /\ ValidationIdle
    /\ \E d1 \in Dates, d2 \in Dates, s1 \in {Posted, Voided}, s2 \in {Posted, Voided},
          e1 \in SheetShapes, e2 \in SheetShapes :
         /\ d1 <= d2
         /\ ledger = <<LedgerTx("L1", d1, s1, e1), LedgerTx("L2", d2, s2, e2)>>
    /\ report = Report("Init", "", 0, 0, "ok", NoMoney, NoMoney, NoMoney,
                       NoMoney, <<>>)
    /\ sheet = NoStatement

\* one statement is asked for
SheetNext ==
    /\ ~sheet.done
    /\ \E asOf \in Dates, detail \in DetailLevels, comparative \in BOOLEAN :
         GenerateBalanceSheet(asOf, detail, comparative, 1)

SpecSheet == SheetInit /\ [][SheetNext]_vars

(***************************************************************************)
(* Properties of the event bus                                              *)
(***************************************************************************)
\* C24: every successful ProcessTransaction publishes one transaction.posted
\* event on the event bus: the call has the bus begin a Publish of that
\* event type
C24_ProcessPublishesPosted ==
    [][\A t \in TxObjs :
          (IsProcessOf(t) /\ pret'.err = "ok") =>
             /\ pub' # pub
             /\ pub'.type = TransactionPosted]_vars

\* C25: when Publish is about to return, every handler that was subscribed to
\* the event type when Publish was called and was neither subscribed nor
\* unsubscribed while it ran has been invoked exactly as often as it is
\* registered
C25_PublishInvokesEachOnce ==
    Delivered(pub) =>
       \A h \in Handlers \ pub.touched :
          Count(pub.delivered, h) = Count(pub.atBegin, h)

\* list s without its k-th element
Without(s, k) == [j \in 1..(Len(s) - 1) |-> IF j < k THEN s[j] ELSE s[j + 1]]

\* C26: Unsubscribe(eventType, h) takes exactly one registration of h out of
\* the list of eventType, or nothing when h is not registered there; the
\* other registrations keep their order and the lists of the other event
\* types stay as they are
C26_UnsubscribeRemovesOne ==
    [][\A et \in EventTypes, h \in Handlers :
          Unsubscribe(et, h) =>
             LET old == Elems(handlers[et])
                 new == Elems(handlers'[et])
             IN  /\ Count(old, h) = 0 => new = old
                 /\ Count(old, h) > 0 =>
                       \E k \in 1..Len(old) : old[k] = h /\ new = Without(old, k)
                 /\ \A o \in EventTypes \ {et} :
                       Elems(handlers'[o]) = Elems(handlers[o])]_vars

\* h1 was registered before and behind h2 when a Publish began and has been
\* unsubscribed once since: it is still registered behind h2, and the other
\* event type has a handler too
C26_Witness ==
    /\ pub.type = TransactionPosted
    /\ pub.atBegin = <<"h1", "h2", "h1">>
    /\ pub.touched = {"h1"}
    /\ Elems(handlers[TransactionPosted]) = <<"h2", "h1">>
    /\ handlers[TransactionVoided].len > 0

(***************************************************************************)
(* Properties of the validation engine                                      *)
(***************************************************************************)
\* the Validate call ran every validator: the object was not nil and no
\* validator handed back an error of its own
Completed(r) == r.op = "Validate" /\ r.err \in {"ok", "validation_failed"}

\* C27: the registration list is sorted ascending by priority after any
\* sequence of RegisterValidator calls, and a Validate that runs every
\* validator runs them in the order of the list and returns their results
\* concatenated in that order
C27_PriorityOrder ==
    /\ IsSorted(validators)
    /\ Completed(eres) =>
          /\ eres.order = eres.registered
          /\ IsSorted(eres.order)
          /\ \A i \in 1..Len(eres.order) : \A n \in 1..Len(eres.answers[i].sevs) :
                \E k \in 1..Len(eres.results) :
                   eres.results[k] =
                      Result(eres.order[i], i, n, eres.answers[i].sevs[n])
          /\ \A k, l \in 1..Len(eres.results) :
                k < l =>
                   \/ eres.results[k].pos < eres.results[l].pos
                   \/ /\ eres.results[k].pos = eres.results[l].pos
                      /\ eres.results[k].n < eres.results[l].n

\* two validators of different priority ran and both returned results
C27_Witness ==
    /\ Completed(eres)
    /\ Len(eres.order) = 2
    /\ Priority(eres.order[1]) < Priority(eres.order[2])
    /\ \E k, l \in 1..Len(eres.results) :
          Priority(eres.results[k].by) < Priority(eres.results[l].by)

DebitNormal(acc) == AccountType(acc) \in {Asset, Expense}

\* the balance of account acc in currency cur over the stored Posted
\* transactions dated lo..hi, from transaction i on: the entries of acc on
\* its normal side minus those on the other side
RECURSIVE BalanceOver(_, _, _, _, _)
BalanceOver(acc, cur, lo, hi, i) ==
    IF i > Len(ledger) THEN 0
    ELSE (IF ledger[i].Status = Posted /\ ledger[i].Date >= lo /\ ledger[i].Date <= hi
          THEN Contribution(ledger[i].Entries, acc, cur, DebitNormal(acc), 1)
          ELSE 0)
         + BalanceOver(acc, cur, lo, hi, i + 1)

\* C29: CalculateBalance(accountId, period) is the sum over the Posted
\* transactions dated within the period of the entries of accountId on the
\* account's normal side minus those on the opposite side; entries of other
\* accounts do not contribute
C29_BalanceOfOwnEntries ==
    (report.op = "CalculateBalance" /\ report.err = "ok") =>
       report.Balance.Amount =
          BalanceOver(report.acc, report.Balance.Currency, report.start,
                      report.end, 1)

\* the normal-direction signed sum of the movements from position i on
RECURSIVE MovementSum(_, _, _)
MovementSum(ms, debitNormal, i) ==
    IF i > Len(ms) THEN 0
    ELSE (IF (ms[i].Type = Debit) = debitNormal
          THEN ms[i].Amount.Amount ELSE 0 - ms[i].Amount.Amount)
         + MovementSum(ms, debitNormal, i + 1)

\* C30: CalculateChanges returns as opening balance the balance of the
\* transactions dated strictly before start, as closing balance that of the
\* transactions dated up to and including end, and net change = closing -
\* opening, which is the signed sum of the movements it lists
C30_ChangesAddUp ==
    (report.op = "CalculateChanges" /\ report.err = "ok") =>
       /\ report.OpeningBalance.Amount =
             BalanceOver(report.acc, report.OpeningBalance.Currency,
                         BeginningOfTime, report.start - 1, 1)
       /\ report.ClosingBalance.Amount =
             BalanceOver(report.acc, report.ClosingBalance.Currency,
                         BeginningOfTime, report.end, 1)
       /\ report.NetChange.Amount =
             report.ClosingBalance.Amount - report.OpeningBalance.Amount
       /\ report.NetChange.Amount =
             MovementSum(report.Movements, DebitNormal(report.acc), 1)

(***************************************************************************)
(* The rollback of a failed batch                                           *)
(***************************************************************************)
\* C37: in the rollback of a failed batch the compensating writes go only to
\* the transactions whose phase-2 write had succeeded: the transaction whose
\* write was refused and those after it in the list get no write after the
\* refused one
C37_RollbackOnlyWritten ==
    [][\A b \in Batches \ {<<>>} :
        (IsBatchOf(b) /\ pret'.err = "storage_error") =>
            LET nc == NewCalls
                k == FirstRefused(nc, Len(b))
            IN  \A m \in (k + 1)..Len(nc) :
                    \E j \in 1..(k - 1) : nc[m].obj = b[j]]_vars

(***************************************************************************)
(* The reversal and the stamp on the original                               *)
(***************************************************************************)
\* C38: between engine operations, a stored Posted transaction of type
\* Reversal with reversed-from = T goes with a stored original T that has
\* reversal-id equal to the reversal's id and reversed-at set, also after a
\* ReverseTransaction that failed on the update of the original
C38_ReversalAndStampAgree ==
    \A id \in RepoIds :
        (repo[id].Type = Reversal /\ repo[id].Status = Posted
            /\ repo[id].ReversedFrom \in RepoIds) =>
            /\ repo[repo[id].ReversedFrom].ReversalID = repo[id].ID
            /\ repo[repo[id].ReversedFrom].ReversedAt # NoTime

(***************************************************************************)
(* Entities of two types under one id                                       *)
(***************************************************************************)
\* the step is a Create or an Update of object o that returned nil
IsWriteOf(o) == ret'.op \in {"Create", "Update"} /\ ret'.o = o /\ ret'.err = "ok"

\* C39: entities of different types under one id do not interfere: a Create
\* or Update of an entity of one type leaves the stored entity, the stored
\* version and the audit trail of the entity of another type with that id as
\* they were, and a Delete of the id has one entity it can remove
C39_TypesDoNotInterfere ==
    [][/\ \A o \in TypedCallers, t \in Types :
            (IsWriteOf(o) /\ t # getEntityType(o)
                /\ Stored(t, getEntityID(o)) # NoObj) =>
                /\ Stored(t, getEntityID(o))' = Stored(t, getEntityID(o))
                /\ version'[getEntityID(o)] = version[getEntityID(o)]
                /\ audit'[getEntityID(o)] = audit[getEntityID(o)]
       /\ (ret'.op = "Delete" /\ ret'.err = "ok") =>
            Cardinality(DeleteHits(ret'.id)) = 1]_vars

(***************************************************************************)
(* Unsubscribe from one goroutine while another one publishes               *)
(***************************************************************************)
\* C36: when Unsubscribe(eventType, h) runs while a Publish of that type
\* delivers, every handler that stays subscribed for the whole Publish has
\* been invoked exactly as often as it is registered when Publish is about
\* to return, and no handler more often than it was registered
C36_ConcurrentUnsubscribe ==
    Delivered(pub) =>
       /\ \A h \in Handlers \ pub.touched :
             Count(pub.delivered, h) = Count(pub.atBegin, h)
       /\ \A h \in Handlers : Count(pub.delivered, h) <= Count(pub.atBegin, h)

(***************************************************************************)
(* A context that is cancelled already                                      *)
(***************************************************************************)
\* C34: ProcessTransaction, ProcessTransactionBatch, VoidTransaction and
\* ReverseTransaction called with a context that is cancelled already return
\* a Cancelled outcome and make no write on the store
C34_CancelledContext ==
    [][ctx = Cancelled =>
         /\ pret'.err = "cancelled"
         /\ calls' = calls
         /\ repo' = repo]_vars

(***************************************************************************)
(* Two goroutines that call VoidTransaction, or ReverseTransaction, for one *)
(* stored transaction: the calls interleave at the repository, each Read    *)
(* and each Update being one step under the repository's own lock           *)
(***************************************************************************)
\* the call of goroutine g has returned err
Return(g, err) == [inflight EXCEPT ![g].pc = "done", ![g].err = err]

\* processor.go:298-316 and 330-366: GetTransaction, the checks, and the
\* stamping of the goroutine's own copy
Load(g) ==
    LET c == inflight[g]
        tx == GetTransaction(c.id)
        cerr == IF c.op = "VoidTransaction" THEN VoidErr(tx) ELSE ReverseErr(tx)
        now == clock + 1
    IN  /\ c.pc = "called"
        /\ IF RepoReadErr(c.id) # "ok"
           THEN /\ inflight' = Return(g, "not_found")
                /\ clock' = clock
           ELSE IF cerr # "ok"
           THEN /\ inflight' = Return(g, cerr)
                /\ clock' = clock
           ELSE /\ clock' = now
                /\ inflight' =
                     [inflight EXCEPT
                        ![g].pc = "read",
                        ![g].tx = IF c.op = "VoidTransaction"
                                  THEN StampVoided(tx, now, c.reason)
                                  ELSE StampReversed(tx, now, RevID(tx.ID)),
                        ![g].rev = IF c.op = "VoidTransaction" THEN NoTx
                                   ELSE ReversalOf(tx, now)]
        /\ UNCHANGED <<txs, calls, pret, repo, ctx, storeVars, concVars, valVars,
                       libVars>>

\* processor.go:369-372: ProcessTransaction(ctx, reversalTx)
Post(g) ==
    LET c == inflight[g]
        now == clock + 1
    IN  /\ c.op = "ReverseTransaction" /\ c.pc = "read"
        /\ IF ProcessErr(repo, c.rev, now) # "ok"
           THEN /\ inflight' = Return(g, "process_failed")
                /\ UNCHANGED <<clock, repo>>
           ELSE /\ clock' = now
                /\ repo' = RepoUpdate(repo, Stamp(c.rev, now))
                /\ inflight' = [inflight EXCEPT ![g].pc = "posted",
                                                ![g].rev = Stamp(c.rev, now)]
        /\ UNCHANGED <<txs, calls, pret, ctx, storeVars, concVars, valVars, libVars>>

\* processor.go:319-324 and 380-385: repo.Update of the goroutine's copy
Store(g) ==
    LET c == inflight[g]
    IN  /\ \/ c.op = "VoidTransaction" /\ c.pc = "read"
           \/ c.op = "ReverseTransaction" /\ c.pc = "posted"
        /\ repo' = RepoUpdate(repo, c.tx)
        /\ inflight' = Return(g, IF RepoUpdateErr(repo, c.tx) = "ok" THEN "ok"
                                 ELSE "storage_error")
        /\ UNCHANGED <<txs, calls, clock, pret, ctx, storeVars, concVars, valVars,
                       libVars>>

\* the repository holds one Posted transaction, with or without an entry
\* under the id of its reversal; each goroutine has been handed its call
TwoCallsInit ==
    /\ StoreInit /\ ConcIdle /\ ValIdle /\ LibIdle
    /\ ctx = Background
    /\ txs = [t \in TxObjs |-> Transaction(TxID(t), Draft, <<>>, NoTime)]
    /\ calls = <<>>
    /\ clock = 1
    /\ pret = PRet("Init", "none", "ok")
    /\ \E target \in TxIds, sh \in TxShapes, ph \in BOOLEAN :
         /\ repo = [id \in RepoIds |->
                      IF id = target THEN StoredTx(id, Posted, sh)
                      ELSE IF id = RevID(target) /\ ph THEN Placeholder(id)
                      ELSE NoTx]
         /\ \E op \in [Goroutines -> {"VoidTransaction", "ReverseTransaction"}] :
              inflight = [g \in Goroutines |->
                            Call(op[g], target, IF g = "g1" THEN "err" ELSE "dup",
                                 "called", NoTx, NoTx, "")]

TwoCallsNext ==
    \/ \E g \in Goroutines : Load(g)
    \/ \E g \in Goroutines : Post(g)
    \/ \E g \in Goroutines : Store(g)

SpecTwoCalls == TwoCallsInit /\ [][TwoCallsNext]_vars

\* both calls have returned
BothReturned == \A g \in Goroutines : inflight[g].pc = "done"

\* the calls that returned nil
Succeeded == {g \in Goroutines : inflight[g].err = "ok"}

\* C35: of two concurrent VoidTransaction calls, or two concurrent
\* ReverseTransaction calls, for the same Posted transaction at most one
\* returns success, and the stored transaction carries the stamp of the one
\* that did
C35_OneConcurrentWinner ==
    (BothReturned /\ inflight["g1"].op = inflight["g2"].op) =>
        /\ Cardinality(Succeeded) <= 1
        /\ \A g \in Succeeded :
             /\ repo[inflight[g].id].VoidedAt = inflight[g].tx.VoidedAt
             /\ repo[inflight[g].id].VoidReason = inflight[g].tx.VoidReason
             /\ repo[inflight[g].id].ReversedAt = inflight[g].tx.ReversedAt

(***************************************************************************)
(* Properties of GetTransactionSummary                                      *)
(***************************************************************************)
\* the place of an account id in ascending order
AccountRank(acc) == IF acc = "A" THEN 1 ELSE IF acc = "B" THEN 2 ELSE 3

Ascending(accounts) ==
    \A i, j \in 1..Len(accounts) :
        i < j => AccountRank(accounts[i]) <= AccountRank(accounts[j])

\* C33: GetTransactionSummary returns total debits = the sum of the Debit
\* entries, total credits = the sum of the Credit entries, net = total debits
\* - total credits, entry count = the number of entries, and the affected
\* account ids as a list in ascending order, whatever the order of the
\* entries; it makes no call on the store
C33_SummaryTotalsAndSortedAccounts ==
    (summary.done /\ ~summary.panicked) =>
        /\ summary.TotalDebits.Amount = SumOf(vtx, Debit, 1)
        /\ summary.TotalCredits.Amount = SumOf(vtx, Credit, 1)
        /\ summary.NetAmount.Amount = SumOf(vtx, Debit, 1) - SumOf(vtx, Credit, 1)
        /\ summary.EntryCount = Len(vtx)
        /\ {summary.AffectedAccounts[i] : i \in 1..Len(summary.AffectedAccounts)}
              = Accounts(vtx)
        /\ Ascending(summary.AffectedAccounts)
        /\ calls = <<>> /\ repo = EmptyRepo

\* C40: the totalDebits and totalCredits that BasicValidator attaches to an
\* Unbalanced error are the sum of the Debit entries and the sum of the
\* Credit entries of the transaction, and they are the totals that
\* GetTransactionSummary returns for it
C40_UnbalancedTotalsAgree ==
    (vres.done /\ summary.done /\ ~summary.panicked) =>
        \A i \in 1..Len(vres.Errors) :
            vres.Errors[i].Code = ErrCodeUnbalanced =>
                /\ vres.Errors[i].Details.totalDebits = SumOf(vtx, Debit, 1)
                /\ vres.Errors[i].Details.totalCredits = SumOf(vtx, Credit, 1)
                /\ vres.Errors[i].Details.totalDebits = summary.TotalDebits.Amount
                /\ vres.Errors[i].Details.totalCredits = summary.TotalCredits.Amount

(***************************************************************************)
(* Properties of the balance sheet                                          *)
(***************************************************************************)
\* the sum of the amounts of the items from position i on
RECURSIVE ItemSum(_, _)
ItemSum(items, i) ==
    IF i > Len(items) THEN 0
    ELSE items[i].Amount.Amount + ItemSum(items, i + 1)

HasItem(section, acc) ==
    \E i \in 1..Len(section.Items) : section.Items[i].Account = acc

\* the account types of the three sections, in their order
SectionTypes == <<Asset, Liability, Equity>>

\* every Posted transaction of the ledger is balanced and has one entry per
\* account
OnlyBalanced ==
    \A i \in 1..Len(ledger) :
        ledger[i].Status = Posted =>
            /\ Balanced(ledger[i].Entries)
            /\ \A m, n \in 1..Len(ledger[i].Entries) :
                 m # n => ledger[i].Entries[m].AccountID # ledger[i].Entries[n].AccountID

====
